---- MODULE Spec2Model ----
(***************************************************************************)
(* A model of the terminal rendering engine (SmartRenderer), the styled    *)
(* grid (StyledFrameBuffer) it renders, and the ANSI terminal that reads   *)
(* its output.  Strings written to the terminal are sequences of tokens:   *)
(*   <<"CUP", row, col>>   CSI row;col H   (1-based, as on the wire)        *)
(*   <<"SGR", n>>          CSI n m                                         *)
(*   <<"ED2">>             CSI 2 J         (clear the whole screen)        *)
(*   <<"CH", c>>           the character c                                 *)
(*   <<"NL">>              the newline between the rows of a serialized    *)
(*                         grid                                            *)
(*   <<"EL", 0>>           CSI 0 K         (clear to the end of the line)  *)
(***************************************************************************)
EXTENDS Integers, Sequences, FiniteSets, TLC

\* ------------------------------------------------------------------ bounds

\* Largest index, within its phase, of the terminal write that fails.
MaxFailIdx == 1
\* Most rects the engine's dirty queue holds in the small-queue specifications.
MaxQueue == 2
\* Most entries a grid's own dirty list holds.
MaxGridDirty == 1
\* Longest dirty queue where the terminal is resized or a write fails
MaxQueueResize == 1
\* Longest dirty queue in the long-queue specification
MaxLongQueue == 22
\* Most entries of the grid's own dirty list where renders are paged
MaxGridDirtyPaged == 2
\* Most entries of the dirty list of a grid that is used on its own
MaxGridList == 2
\* The largest usize: the machine word is scaled down to the sizes of the
\* model's grids and terminals, which are far smaller.
UsizeMax == 255
\* The largest u32, scaled down as usize is
U32Max == 255
\* The largest u16, scaled down as usize is: terminal sizes and positions
\* are u16.
U16Max == 127
\* The number of threads that use the pools
MaxThreads == 2
\* Most calls of one thread on the pools
MaxPoolCalls == 3
\* The highest frame rate a caller asks for
MaxFps == 500
\* Most frames a FrameTimer waits for
MaxFrames == 2

\* Buffers in the pool of the Plain Grid when a grid is built with new
MaxPooled == 1

\* --------------------------------------------------------- program constants

WorkspaceMargin == 4
MinWorkspaceWidth == 40
MinWorkspaceHeight == 20
page_size == 64
MaxDirtyRegions == 20
\* The most buffers a pool keeps
PoolCap == 16
\* 1024 * 1024, the largest capacity of a buffer that a pool keeps
PoolMaxCapacity == 1048576
\* The size of a char in bytes
CharBytes == 4
\* The bytes the buffer of stdout holds
StdoutCapacity == 1024
\* The lowest and the highest frame rate of a FrameTimer
MinTargetFps == 1
MaxTargetFps == 120
\* The nanoseconds of a second
NanosPerSecond == 1000000000
\* U+2800, the Braille character with no dot
BrailleBase == 10240
\* The threshold of pixels_to_braille
DefaultThreshold == 128

\* The side of the blocks get_changed_regions compares
BlockSize == 8

\* --------------------------------------------------------------- primitives

None == "None"

Min(a, b) == IF a < b THEN a ELSE b
Max(a, b) == IF a > b THEN a ELSE b
\* usize::saturating_sub
saturating_sub(a, b) == IF a > b THEN a - b ELSE 0

to_ansi_fg(c) ==
    CASE c = "Black" -> 30 [] c = "Red" -> 31 [] c = "Green" -> 32
      [] c = "Yellow" -> 33 [] c = "Blue" -> 34 [] c = "Magenta" -> 35
      [] c = "Cyan" -> 36 [] c = "White" -> 37 [] c = "Gray" -> 90
      [] c = "Reset" -> 0

to_ansi_bg(c) ==
    CASE c = "Black" -> 40 [] c = "Red" -> 41 [] c = "Green" -> 42
      [] c = "Yellow" -> 43 [] c = "Blue" -> 44 [] c = "Magenta" -> 45
      [] c = "Cyan" -> 46 [] c = "White" -> 47 [] c = "Gray" -> 100
      [] c = "Reset" -> 0

StyledChar_new(ch) == [ch |-> ch, fg_color |-> None, bg_color |-> None]
with_fg(sc, color) == [sc EXCEPT !.fg_color = color]
with_bg(sc, color) == [sc EXCEPT !.bg_color = color]
StyledChar_default == StyledChar_new(" ")

StyledChar_to_string(sc) ==
    IF sc.fg_color = None /\ sc.bg_color = None
    THEN << <<"CH", sc.ch>> >>
    ELSE (IF sc.fg_color # None THEN << <<"SGR", to_ansi_fg(sc.fg_color)>> >> ELSE <<>>)
         \o (IF sc.bg_color # None THEN << <<"SGR", to_ansi_bg(sc.bg_color)>> >> ELSE <<>>)
         \o << <<"CH", sc.ch>> >>
         \o << <<"SGR", 0>> >>

get_style_codes(sc) ==
    (IF sc.fg_color # None THEN << <<"SGR", to_ansi_fg(sc.fg_color)>> >> ELSE <<>>)
    \o (IF sc.bg_color # None THEN << <<"SGR", to_ansi_bg(sc.bg_color)>> >> ELSE <<>>)

\* A sequence in explicit form (the same value)
AsSeq(s) == s \o <<>>

Rect_new(x, y, width, height) == [x |-> x, y |-> y, width |-> width, height |-> height]

\* -------------------------------------------------------------- styled grid

StyledFrameBuffer_new(width, height) ==
    [width |-> width, height |-> height,
     data |-> AsSeq([i \in 1..(width * height) |-> StyledChar_default]),
     dirty_regions |-> <<>>]

StyledFrameBuffer_mark_dirty(fb, rect) ==
    [fb EXCEPT !.dirty_regions = Append(@, rect)]

\* A set that checks the index against the storage instead of the coordinates
StyledFrameBuffer_set_index_checked(fb, x, y, styled_char) ==
    LET index == y * fb.width + x IN
    IF index < Len(fb.data) /\ fb.data[index + 1] # styled_char
    THEN StyledFrameBuffer_mark_dirty([fb EXCEPT !.data[index + 1] = styled_char],
                                      Rect_new(x, y, 1, 1))
    ELSE fb

\* A set that records every in-bounds write
StyledFrameBuffer_set_always_marking(fb, x, y, styled_char) ==
    IF x < fb.width /\ y < fb.height
    THEN StyledFrameBuffer_mark_dirty([fb EXCEPT !.data[y * fb.width + x + 1] = styled_char],
                                      Rect_new(x, y, 1, 1))
    ELSE fb

StyledFrameBuffer_set(fb, x, y, styled_char) ==
    IF x < fb.width /\ y < fb.height
    THEN LET index == y * fb.width + x IN
         IF fb.data[index + 1] # styled_char
         THEN StyledFrameBuffer_mark_dirty([fb EXCEPT !.data[index + 1] = styled_char],
                                           Rect_new(x, y, 1, 1))
         ELSE fb
    ELSE fb

StyledFrameBuffer_get(fb, x, y) ==
    IF x < fb.width /\ y < fb.height
    THEN fb.data[y * fb.width + x + 1]
    ELSE StyledChar_default

StyledFrameBuffer_clear_with(fb, styled_char) ==
    StyledFrameBuffer_mark_dirty(
        [fb EXCEPT !.data = AsSeq([i \in 1..Len(fb.data) |-> styled_char])],
        Rect_new(0, 0, fb.width, fb.height))

\* A clear that records a rect only when a cell changes
StyledFrameBuffer_clear_marking_changes(fb) ==
    IF \A i \in 1..Len(fb.data) : fb.data[i] = StyledChar_default
    THEN fb
    ELSE StyledFrameBuffer_mark_dirty(
             [fb EXCEPT !.data = AsSeq([i \in 1..Len(fb.data) |-> StyledChar_default])],
             Rect_new(0, 0, fb.width, fb.height))

StyledFrameBuffer_clear(fb) ==
    StyledFrameBuffer_mark_dirty(
        [fb EXCEPT !.data = AsSeq([i \in 1..Len(fb.data) |-> StyledChar_default])],
        Rect_new(0, 0, fb.width, fb.height))

StyledFrameBuffer_clear_dirty(fb) == [fb EXCEPT !.dirty_regions = <<>>]

StyledFrameBuffer_force_refresh(fb) ==
    StyledFrameBuffer_mark_dirty(fb, Rect_new(0, 0, fb.width, fb.height))

\* A resize that keeps the cells at their index in the storage
StyledFrameBuffer_resize_by_index(fb, new_width, new_height) ==
    IF new_width = fb.width /\ new_height = fb.height
    THEN fb
    ELSE StyledFrameBuffer_force_refresh(
             [width |-> new_width, height |-> new_height,
              data |-> AsSeq([i \in 1..(new_width * new_height) |->
                                IF i <= Len(fb.data) THEN fb.data[i] ELSE StyledChar_default]),
              dirty_regions |-> fb.dirty_regions])

\* A resize that starts the dirty list afresh with the rect of the new grid
StyledFrameBuffer_resize_fresh_list(fb, new_width, new_height) ==
    IF new_width = fb.width /\ new_height = fb.height
    THEN fb
    ELSE StyledFrameBuffer_force_refresh(
             [width |-> new_width, height |-> new_height,
              data |-> AsSeq([i \in 1..(new_width * new_height) |->
                                StyledFrameBuffer_get(fb, (i - 1) % new_width,
                                                      (i - 1) \div new_width)]),
              dirty_regions |-> <<>>])

StyledFrameBuffer_resize(fb, new_width, new_height) ==
    IF new_width = fb.width /\ new_height = fb.height
    THEN fb
    ELSE LET copy_width == Min(new_width, fb.width)
             copy_height == Min(new_height, fb.height)
             new_data == AsSeq([i \in 1..(new_width * new_height) |->
                            LET x == (i - 1) % new_width
                                y == (i - 1) \div new_width
                            IN IF x < copy_width /\ y < copy_height
                               THEN StyledFrameBuffer_get(fb, x, y)
                               ELSE StyledChar_default])
         IN StyledFrameBuffer_force_refresh(
                [width |-> new_width, height |-> new_height,
                 data |-> new_data, dirty_regions |-> fb.dirty_regions])

\* --------------------------------------------------------------- plain grid

FrameBuffer_new(width, height) ==
    [width |-> width, height |-> height,
     data |-> AsSeq([i \in 1..(width * height) |-> " "])]

FrameBuffer_set(fb, x, y, ch) ==
    IF x < fb.width /\ y < fb.height
    THEN [fb EXCEPT !.data[y * fb.width + x + 1] = ch]
    ELSE fb

\* A get that takes the cell of the transposed position
FrameBuffer_get_transposed(fb, x, y) ==
    IF x < fb.width /\ y < fb.height
    THEN fb.data[x * fb.height + y + 1]
    ELSE " "

FrameBuffer_get(fb, x, y) ==
    IF x < fb.width /\ y < fb.height
    THEN fb.data[y * fb.width + x + 1]
    ELSE " "

FrameBuffer_clear(fb) == [fb EXCEPT !.data = AsSeq([i \in 1..Len(fb.data) |-> " "])]

\* -------------------------------------------------------------------- blit

\* A build with overflow checks (debug) panics when a usize sum overflows, a
\* build without them (release) goes on with the wrapped sum.
Builds == {"debug", "release"}

\* a + b on usize: the wrapped sum, and whether the sum overflowed.
usize_add(a, b) == [value |-> (a + b) % (UsizeMax + 1), overflow |-> a + b > UsizeMax]

\* A grid method under way: the grid, and whether the method panicked.
Running(fb) == [fb |-> fb, panic |-> FALSE]

\* One turn of the loops of StyledFrameBuffer::blit, at offset (x, y): the
\* sums are computed in the order of the source text.
StyledFrameBuffer_blit_cell(st, src, src_rect, dst_x, dst_y, x, y, build) ==
    LET src_col == usize_add(src_rect.x, x)
        src_row == usize_add(src_rect.y, y)
        dst_col == usize_add(dst_x, x)
        dst_row == usize_add(dst_y, y)
        checked == build = "debug"
        panicked == [st EXCEPT !.panic = TRUE]
    IN IF st.panic THEN st
       ELSE IF src_col.overflow /\ checked THEN panicked
       ELSE IF ~(src_col.value < src.width) THEN st
       ELSE IF src_row.overflow /\ checked THEN panicked
       ELSE IF ~(src_row.value < src.height) THEN st
       ELSE IF (dst_col.overflow \/ dst_row.overflow) /\ checked THEN panicked
       ELSE [st EXCEPT !.fb = StyledFrameBuffer_set(
                                  @, dst_col.value, dst_row.value,
                                  StyledFrameBuffer_get(src, src_col.value, src_row.value))]

\* The turns lo..hi of the loops, rows outermost (the first half, then the
\* second).
RECURSIVE StyledFrameBuffer_blit_turns(_, _, _, _, _, _, _, _)
StyledFrameBuffer_blit_turns(st, src, src_rect, dst_x, dst_y, lo, hi, build) ==
    IF lo > hi THEN st
    ELSE IF lo = hi
    THEN StyledFrameBuffer_blit_cell(st, src, src_rect, dst_x, dst_y,
                                     lo % src_rect.width, lo \div src_rect.width, build)
    ELSE LET mid == (lo + hi) \div 2
             half == StyledFrameBuffer_blit_turns(st, src, src_rect, dst_x, dst_y, lo, mid, build)
         IN IF half.panic THEN half
            ELSE StyledFrameBuffer_blit_turns(half, src, src_rect, dst_x, dst_y,
                                              mid + 1, hi, build)

StyledFrameBuffer_blit(fb, src, src_rect, dst_x, dst_y, build) ==
    StyledFrameBuffer_blit_turns(Running(fb), src, src_rect, dst_x, dst_y,
                                 0, src_rect.width * src_rect.height - 1, build)

\* One turn of the loops of FrameBuffer::blit
FrameBuffer_blit_cell(st, src, src_x, src_y, dst_x, dst_y, x, y, build) ==
    LET src_col == usize_add(src_x, x)
        src_row == usize_add(src_y, y)
        dst_col == usize_add(dst_x, x)
        dst_row == usize_add(dst_y, y)
        checked == build = "debug"
        panicked == [st EXCEPT !.panic = TRUE]
    IN IF st.panic THEN st
       ELSE IF src_col.overflow /\ checked THEN panicked
       ELSE IF ~(src_col.value < src.width) THEN st
       ELSE IF src_row.overflow /\ checked THEN panicked
       ELSE IF ~(src_row.value < src.height) THEN st
       ELSE IF (dst_col.overflow \/ dst_row.overflow) /\ checked THEN panicked
       ELSE [st EXCEPT !.fb = FrameBuffer_set(@, dst_col.value, dst_row.value,
                                              FrameBuffer_get(src, src_col.value, src_row.value))]

RECURSIVE FrameBuffer_blit_turns(_, _, _, _, _, _, _, _, _, _)
FrameBuffer_blit_turns(st, src, src_x, src_y, dst_x, dst_y, width, lo, hi, build) ==
    IF lo > hi THEN st
    ELSE IF lo = hi
    THEN FrameBuffer_blit_cell(st, src, src_x, src_y, dst_x, dst_y,
                               lo % width, lo \div width, build)
    ELSE LET mid == (lo + hi) \div 2
             half == FrameBuffer_blit_turns(st, src, src_x, src_y, dst_x, dst_y, width,
                                            lo, mid, build)
         IN IF half.panic THEN half
            ELSE FrameBuffer_blit_turns(half, src, src_x, src_y, dst_x, dst_y, width,
                                        mid + 1, hi, build)

FrameBuffer_blit(fb, src, src_x, src_y, dst_x, dst_y, width, height, build) ==
    FrameBuffer_blit_turns(Running(fb), src, src_x, src_y, dst_x, dst_y, width,
                           0, width * height - 1, build)

\* ------------------------------------------------------------ draw methods

\* A write of the drawing loops: the arguments of one set call.
SetAt(x, y, styled_char) == [x |-> x, y |-> y, value |-> styled_char]

\* The grid after the set calls i.. of a list of writes, in order.
RECURSIVE StyledFrameBuffer_set_each(_, _, _)
StyledFrameBuffer_set_each(fb, writes, i) ==
    IF i > Len(writes) THEN fb
    ELSE LET next == StyledFrameBuffer_set(fb, writes[i].x, writes[i].y, writes[i].value)
         IN IF next.width >= 0 THEN StyledFrameBuffer_set_each(next, writes, i + 1) ELSE next

\* Characters that draw_text replaces: control characters and code points
\* above 127.
Unsafe == {"\n", "\t", "e-acute"}

safe_char(ch) == IF ch \in Unsafe THEN "?" ELSE ch

StyledFrameBuffer_draw_text(fb, x, y, text, fg_color, bg_color) ==
    IF y >= fb.height \/ x >= fb.width
    THEN fb
    ELSE LET max_chars == fb.width - x
             drawn == Min(Len(text), max_chars)
         IN StyledFrameBuffer_set_each(
                fb,
                [k \in 1..drawn |->
                    SetAt(x + k - 1, y, [ch |-> safe_char(text[k]), fg_color |-> fg_color,
                                         bg_color |-> bg_color])],
                1)

\* draw_rect adds the rect's extent to its origin before clipping: the sum
\* panics or wraps as the build has it.
StyledFrameBuffer_draw_rect(fb, rect, ch, fg_color, bg_color, build) ==
    LET styled_char == [ch |-> ch, fg_color |-> fg_color, bg_color |-> bg_color]
        right == usize_add(rect.x, rect.width)
        bottom == usize_add(rect.y, rect.height)
        start_x == Min(rect.x, fb.width)
        start_y == Min(rect.y, fb.height)
        end_x == Min(right.value, fb.width)
        end_y == Min(bottom.value, fb.height)
        columns == Max(end_x - start_x, 0)
        rows == Max(end_y - start_y, 0)
    IN IF (right.overflow \/ bottom.overflow) /\ build = "debug"
       THEN [fb |-> fb, panic |-> TRUE]
       ELSE Running(StyledFrameBuffer_set_each(
                        fb,
                        [k \in 1..(columns * rows) |->
                            SetAt(start_x + ((k - 1) % columns), start_y + ((k - 1) \div columns),
                                  styled_char)],
                        1))

\* The far edges are the sums of origin and extent less one, on usize.
StyledFrameBuffer_draw_border(fb, rect, fg_color, build) ==
    IF rect.width < 2 \/ rect.height < 2 \/ rect.x >= fb.width \/ rect.y >= fb.height
    THEN Running(fb)
    ELSE LET color == IF fg_color = None THEN "White" ELSE fg_color
             far_x == usize_add(rect.x, rect.width)
             far_y == usize_add(rect.y, rect.height)
             right == Min((far_x.value - 1) % (UsizeMax + 1), fb.width - 1)
             bottom == Min((far_y.value - 1) % (UsizeMax + 1), fb.height - 1)
             corner == with_fg(StyledChar_new("+"), color)
             horizontal == with_fg(StyledChar_new("-"), color)
             vertical == with_fg(StyledChar_new("|"), color)
             corners == <<SetAt(rect.x, rect.y, corner), SetAt(right, rect.y, corner),
                          SetAt(rect.x, bottom, corner), SetAt(right, bottom, corner)>>
             across == Max(right - rect.x - 1, 0)
             down == Max(bottom - rect.y - 1, 0)
             horizontals == [k \in 1..(2 * across) |->
                               SetAt(rect.x + 1 + ((k - 1) \div 2),
                                     IF k % 2 = 1 THEN rect.y ELSE bottom, horizontal)]
             verticals == [k \in 1..(2 * down) |->
                             SetAt(IF k % 2 = 1 THEN rect.x ELSE right,
                                   rect.y + 1 + ((k - 1) \div 2), vertical)]
         IN IF (far_x.overflow \/ far_y.overflow) /\ build = "debug"
            THEN [fb |-> fb, panic |-> TRUE]
            ELSE IF right <= rect.x \/ bottom <= rect.y THEN Running(fb)
            ELSE Running(StyledFrameBuffer_set_each(fb, corners \o horizontals \o verticals, 1))

StyledFrameBuffer_draw_mouse_cursor(fb, x, y, visible) ==
    IF ~visible \/ x >= fb.width \/ y >= fb.height
    THEN fb
    ELSE StyledFrameBuffer_set(fb, x, y,
                               with_bg(with_fg(StyledChar_new("*"), "Yellow"), "Red"))

\* --------------------------------------------------------------- to_string

has_colors_in_row(fb, y, start_x) ==
    \E x \in start_x..(fb.width - 1) :
        \/ StyledFrameBuffer_get(fb, x, y).fg_color # None
        \/ StyledFrameBuffer_get(fb, x, y).bg_color # None

\* The string under construction and the colours last written
StringStart == [result |-> <<>>, current_fg |-> None, current_bg |-> None]

\* One turn of the inner loop of to_string, at (x, y).
to_string_cell(st, fb, x, y) ==
    LET styled_char == StyledFrameBuffer_get(fb, x, y)
        fg == IF styled_char.fg_color # st.current_fg
              THEN IF styled_char.fg_color # None
                   THEN << <<"SGR", to_ansi_fg(styled_char.fg_color)>> >>
                   ELSE IF has_colors_in_row(fb, y, x) \/ y = 0
                   THEN << <<"SGR", 39>> >>
                   ELSE <<>>
              ELSE <<>>
        bg == IF styled_char.bg_color # st.current_bg
              THEN IF styled_char.bg_color # None
                   THEN << <<"SGR", to_ansi_bg(styled_char.bg_color)>> >>
                   ELSE IF has_colors_in_row(fb, y, x) \/ y = 0
                   THEN << <<"SGR", 49>> >>
                   ELSE <<>>
              ELSE <<>>
    IN [result |-> st.result \o fg \o bg \o << <<"CH", styled_char.ch>> >>,
        current_fg |-> styled_char.fg_color,
        current_bg |-> styled_char.bg_color]

\* The end of row y: the reset and the newline after every row but the last.
to_string_row_end(st, fb, y) ==
    IF y < fb.height - 1
    THEN IF st.current_fg # None \/ st.current_bg # None
         THEN [result |-> st.result \o << <<"SGR", 0>>, <<"NL">> >>,
               current_fg |-> None, current_bg |-> None]
         ELSE [st EXCEPT !.result = @ \o << <<"NL">> >>]
    ELSE st

\* The loops of to_string from cell (x, y) on, rows outermost.
RECURSIVE to_string_from(_, _, _, _)
to_string_from(st, fb, x, y) ==
    IF y >= fb.height THEN st
    ELSE IF x >= fb.width
    THEN LET ended == to_string_row_end(st, fb, y)
         IN IF Len(ended.result) >= 0 THEN to_string_from(ended, fb, 0, y + 1) ELSE ended
    ELSE LET pushed == to_string_cell(st, fb, x, y)
         IN IF Len(pushed.result) >= 0 THEN to_string_from(pushed, fb, x + 1, y) ELSE pushed

StyledFrameBuffer_to_string(fb) ==
    LET st == to_string_from(StringStart, fb, 0, 0)
    IN IF st.current_fg # None \/ st.current_bg # None
       THEN st.result \o << <<"SGR", 0>> >>
       ELSE st.result

\* ----------------------------------------------------------- render_partial
\* CSI 0 K, the clear to the end of the line, is the token <<"EL", 0>>.

\* The row check of render_partial that compares the characters alone
row_changed_chars_only(fb, last_buffer, y) ==
    \E x \in 0..(fb.width - 1) :
        StyledFrameBuffer_get(fb, x, y).ch # StyledFrameBuffer_get(last_buffer, x, y).ch

\* The row check of render_partial: some cell of row y differs.
row_changed(fb, last_buffer, y) ==
    \E x \in 0..(fb.width - 1) :
        StyledFrameBuffer_get(fb, x, y) # StyledFrameBuffer_get(last_buffer, x, y)

\* One turn of the loop that writes a changed row, at (x, y).
render_partial_cell(st, fb, x, y) ==
    LET styled_char == StyledFrameBuffer_get(fb, x, y)
        fg == IF styled_char.fg_color # st.current_fg
              THEN IF styled_char.fg_color # None
                   THEN << <<"SGR", to_ansi_fg(styled_char.fg_color)>> >>
                   ELSE << <<"SGR", 39>> >>
              ELSE <<>>
        bg == IF styled_char.bg_color # st.current_bg
              THEN IF styled_char.bg_color # None
                   THEN << <<"SGR", to_ansi_bg(styled_char.bg_color)>> >>
                   ELSE << <<"SGR", 49>> >>
              ELSE <<>>
    IN [result |-> st.result \o fg \o bg \o << <<"CH", styled_char.ch>> >>,
        current_fg |-> styled_char.fg_color,
        current_bg |-> styled_char.bg_color]

\* The cells of row y from column x on
RECURSIVE render_partial_cells(_, _, _, _)
render_partial_cells(st, fb, x, y) ==
    IF x >= fb.width THEN st
    ELSE LET pushed == render_partial_cell(st, fb, x, y)
         IN IF Len(pushed.result) >= 0 THEN render_partial_cells(pushed, fb, x + 1, y) ELSE pushed

\* The rows from y on, appended to result
RECURSIVE render_partial_rows(_, _, _, _)
render_partial_rows(result, fb, last_buffer, y) ==
    IF y >= fb.height THEN result
    ELSE IF row_changed(fb, last_buffer, y)
    THEN LET start == [result |-> result \o << <<"CUP", y + 1, 1>> >>,
                       current_fg |-> None, current_bg |-> None]
             row == render_partial_cells(start, fb, 0, y).result
                    \o << <<"EL", 0>>, <<"SGR", 0>> >>
         IN IF Len(row) >= 0 THEN render_partial_rows(row, fb, last_buffer, y + 1) ELSE row
    ELSE render_partial_rows(result, fb, last_buffer, y + 1)

StyledFrameBuffer_render_partial(fb, last_buffer) ==
    IF fb.width # last_buffer.width \/ fb.height # last_buffer.height
    THEN StyledFrameBuffer_to_string(fb)
    ELSE render_partial_rows(<<>>, fb, last_buffer, 0)


is_different_from(self, other, x, y) ==
    IF x >= self.width \/ y >= self.height \/ x >= other.width \/ y >= other.height
    THEN TRUE
    ELSE StyledFrameBuffer_get(self, x, y) # StyledFrameBuffer_get(other, x, y)

\* The block check of get_changed_regions that looks at the first cell of
\* the block only
block_changed_at_corner(self, other, block_x, block_y, end_x, end_y) ==
    is_different_from(self, other, block_x, block_y)

\* The block check of get_changed_regions: some cell of the block differs.
block_changed(self, other, block_x, block_y, end_x, end_y) ==
    \E y \in block_y..(end_y - 1), x \in block_x..(end_x - 1) :
        is_different_from(self, other, x, y)

\* The blocks are visited row of blocks after row of blocks: block number k
\* starts at column ((k - 1) % cols) * 8 of row ((k - 1) \div cols) * 8.
get_changed_regions(self, other) ==
    IF self.width # other.width \/ self.height # other.height
    THEN << Rect_new(0, 0, self.width, self.height) >>
    ELSE LET cols == (self.width + BlockSize - 1) \div BlockSize
             rows == (self.height + BlockSize - 1) \div BlockSize
             blocks == [k \in 1..(rows * cols) |->
                          LET block_x == ((k - 1) % cols) * BlockSize
                              block_y == ((k - 1) \div cols) * BlockSize
                              end_x == Min(block_x + BlockSize, self.width)
                              end_y == Min(block_y + BlockSize, self.height)
                          IN Rect_new(block_x, block_y, end_x - block_x, end_y - block_y)]
         IN SelectSeq(AsSeq(blocks),
                      LAMBDA r : block_changed(self, other, r.x, r.y,
                                               r.x + r.width, r.y + r.height))

\* ------------------------------------------------------------------ Braille
\* The luminances of the pixels of the model's images
Luminances == {0, 128, 129, 255}

\* A grayscale image (GrayImage) is its width, its height and its pixels,
\* row by row; a Braille character is its code point.

GrayImage_new(width, height) ==
    [width |-> width, height |-> height,
     data |-> AsSeq([i \in 1..(width * height) |-> 0])]

get_pixel(img, x, y) == img.data[y * img.width + x + 1]

\* a * b on usize: the wrapped product, and whether the product overflowed.
usize_mul(a, b) == [value |-> (a * b) % (UsizeMax + 1), overflow |-> a * b > UsizeMax]

\* `as u32`: the low bits of the word.
as_u32(v) == v % (U32Max + 1)

\* code |= 1 << bit
bit_or(code, bit) == IF (code \div (2 ^ bit)) % 2 = 1 THEN code ELSE code + 2 ^ bit

mapping == <<0, 1, 2, 6, 3, 4, 5, 7>>

\* The loop of pixels_to_braille over the pixels of the block from i on
\* (i counts from 0, as in the source).
RECURSIVE braille_bits(_, _, _, _)
braille_bits(code, block, threshold, i) ==
    IF i >= Len(block) THEN code
    ELSE braille_bits(IF block[i + 1] > threshold THEN bit_or(code, mapping[i + 1]) ELSE code,
                      block, threshold, i + 1)

\* A conversion that raises the dot of a pixel at the threshold as well
pixels_to_braille_at_least(block, threshold) ==
    braille_bits(BrailleBase, [i \in 1..Len(block) |-> block[i] + 1], threshold, 0)

pixels_to_braille_with_threshold(block, threshold) ==
    braille_bits(BrailleBase, block, threshold, 0)

pixels_to_braille(block) == braille_bits(BrailleBase, block, DefaultThreshold, 0)

\* The scaled size of a w x h image that has to fit max_width x max_height
\* pixels: scale is min(max_width / w, max_height / h, 1), kept as the
\* fraction num / den, and each side is the truncated product, at least 1.
\* The source computes in f32; for sides under 37 pixels, which the images
\* of the model are, the f32 results are the exact ones.
scaled_dimensions(w, h, max_width, max_height) ==
    LET x_least == max_width * h <= max_height * w
        num == IF x_least THEN max_width ELSE max_height
        den == IF x_least THEN w ELSE h
        n == IF num >= den THEN 1 ELSE num
        d == IF num >= den THEN 1 ELSE den
    IN <<Max((w * n) \div d, 1), Max((h * n) \div d, 1)>>

\* image::imageops::resize with the Triangle filter, a function of the image
\* crate: every pixel of the result is a weighted mean of pixels of the
\* image, so an image of one luminance keeps it and an image that keeps its
\* size keeps its pixels; the other results are any image of the new size
\* with luminances between the darkest and the brightest pixel.
resize(img, new_w, new_h) ==
    IF new_w = img.width /\ new_h = img.height THEN {img}
    ELSE LET lo == CHOOSE v \in Luminances :
                     /\ \E i \in 1..Len(img.data) : img.data[i] = v
                     /\ \A i \in 1..Len(img.data) : img.data[i] >= v
             hi == CHOOSE v \in Luminances :
                     /\ \E i \in 1..Len(img.data) : img.data[i] = v
                     /\ \A i \in 1..Len(img.data) : img.data[i] <= v
         IN {[width |-> new_w, height |-> new_h, data |-> AsSeq(d)] :
               d \in [1..(new_w * new_h) -> {v \in Luminances : lo <= v /\ v <= hi}]}

load_and_resize_image(img, max_width, max_height) ==
    IF img.width = 0 \/ img.height = 0
    THEN {GrayImage_new(1, 1)}
    ELSE LET new == scaled_dimensions(img.width, img.height, max_width, max_height)
         IN resize(img, new[1], new[2])

\* The block of cell (bx, by): block[dx + dy * 2] is the pixel at
\* (bx * 2 + dx, by * 4 + dy), 0 outside the image.
braille_block(img, bx, by) ==
    [i \in 1..8 |->
        LET dx == (i - 1) % 2
            dy == (i - 1) \div 2
        IN IF (bx * 2 + dx) < img.width /\ (by * 4 + dy) < img.height
           THEN get_pixel(img, bx * 2 + dx, by * 4 + dy)
           ELSE 0]

\* The loops over the cells of the grid: the block of each cell, which the
\* conversion turns into the character of the cell.
braille_cells(img) ==
    LET fb_w == (img.width + 1) \div 2
        fb_h == (img.height + 3) \div 4
    IN [width |-> fb_w, height |-> fb_h,
        data |-> AsSeq([k \in 1..(fb_w * fb_h) |->
                    braille_block(img, (k - 1) % fb_w, (k - 1) \div fb_w)])]

\* What a conversion returns: Ok(fb), with the scaled image fb was made
\* from, or no grid: Err(InvalidDimensions), or the panic of a build with
\* overflow checks.
Converted(img, fb) == [ret |-> "Ok", img |-> img, fb |-> fb]
NotConverted(ret) == [ret |-> ret]

\* The head of both conversions: the check of the dimensions, the products
\* and the scaled images.
braille_scaled(img, max_width, max_height, build) ==
    LET px_w == usize_mul(max_width, 2)
        px_h == usize_mul(max_height, 4)
    IN IF max_width = 0 \/ max_height = 0 THEN [ret |-> "InvalidDimensions", imgs |-> {}]
       ELSE IF (px_w.overflow \/ px_h.overflow) /\ build = "debug"
       THEN [ret |-> "Panic", imgs |-> {}]
       ELSE [ret |-> "Ok",
             imgs |-> load_and_resize_image(img, as_u32(px_w.value), as_u32(px_h.value))]

image_to_braille_fb(img, max_width, max_height, build) ==
    LET head == braille_scaled(img, max_width, max_height, build)
    IN IF head.ret # "Ok" THEN {NotConverted(head.ret)}
       ELSE {Converted(scaled,
                       [braille_cells(scaled) EXCEPT
                            !.data = AsSeq([k \in 1..Len(@) |-> pixels_to_braille(@[k])])]) :
               scaled \in head.imgs}

image_to_braille_fb_with_threshold(img, max_width, max_height, threshold, build) ==
    LET head == braille_scaled(img, max_width, max_height, build)
    IN IF head.ret # "Ok" THEN {NotConverted(head.ret)}
       ELSE {Converted(scaled,
                       [braille_cells(scaled) EXCEPT
                            !.data = AsSeq([k \in 1..Len(@) |->
                                        pixels_to_braille_with_threshold(@[k], threshold)])]) :
               scaled \in head.imgs}

\* -------------------------------------------------------------------- Rect
\* What a method of Rect returns: a value, or the panic of a build with
\* overflow checks where a sum overflows.  && does not evaluate its right
\* side where the left side is false.
Answer(value) == [panic |-> FALSE, value |-> value]
Panicked == [panic |-> TRUE, value |-> FALSE]

\* a test of `lhs < a + b` (less = TRUE) or `a + b > rhs` (less = FALSE)
\* followed by && rest
sum_test(a, b, other, less, build, rest) ==
    LET sum == usize_add(a, b)
    IN IF sum.overflow /\ build = "debug" THEN Panicked
       ELSE IF (IF less THEN other < sum.value ELSE sum.value > other) THEN rest
       ELSE Answer(FALSE)

Rect_contains(rect, x, y, build) ==
    IF ~(x >= rect.x) THEN Answer(FALSE)
    ELSE sum_test(rect.x, rect.width, x, TRUE, build,
             IF ~(y >= rect.y) THEN Answer(FALSE)
             ELSE sum_test(rect.y, rect.height, y, TRUE, build, Answer(TRUE)))

Rect_intersects(a, b, build) ==
    sum_test(b.x, b.width, a.x, TRUE, build,
    sum_test(a.x, a.width, b.x, FALSE, build,
    sum_test(b.y, b.height, a.y, TRUE, build,
    sum_test(a.y, a.height, b.y, FALSE, build, Answer(TRUE)))))

\* -------------------------------------------------------------- FrameTimer
\* target_fps is a u32; no operation on it overflows, and the model takes
\* the rates a caller asks for as they are.

\* A clamp with no lower end
clamp_target_fps_from_above(target_fps) == Min(target_fps, MaxTargetFps)

\* target_fps.max(1).min(120)
clamp_target_fps(target_fps) == Min(Max(target_fps, MinTargetFps), MaxTargetFps)

\* FrameTimer::new(target_fps): the timer, or the panic of a division by zero
FrameTimer_new(target_fps) ==
    LET clamped == clamp_target_fps(target_fps)
    IN IF clamped = 0 THEN [panic |-> TRUE, target_fps |-> clamped, frame_duration |-> 0,
                            frame_count |-> 0]
       ELSE [panic |-> FALSE, target_fps |-> clamped,
             frame_duration |-> NanosPerSecond \div clamped, frame_count |-> 0]

\* wait_for_next_frame(): the frame is counted.
FrameTimer_wait_for_next_frame(timer) == [timer EXCEPT !.frame_count = @ + 1]

\* ------------------------------------------------------------------- pools
\* A buffer (Vec<char>, Vec<StyledChar>) is its identity and its capacity in
\* elements; no buffer has the identity 0.  A pool is the Mutex, owner being
\* the thread that holds the lock (0: none), and the Vec of buffers in it.

NoBuffer == [id |-> 0, capacity |-> 0]

Pool_new == [owner |-> 0, data |-> <<>>]

Threads == 1..MaxThreads

\* A thread outside the pool functions, holding no grid
ThreadIdle ==
    [pc |-> "idle", kind |-> "plain", size |-> 0, held |-> NoBuffer, seen |-> NoBuffer,
     calls |-> 0]

\* A lock that any thread may take at any time
lock_free_always(pool) == pool.owner >= 0

\* Mutex::lock returns when no thread holds the lock.
lock_free(pool) == pool.owner = 0

\* The capacity after Vec::resize(size, ..) of a cleared buffer: unchanged
\* where size fits, else grown to the larger of twice the capacity and size.
resized_capacity(capacity, size) ==
    IF size <= capacity THEN capacity ELSE Max(2 * capacity, size)

\* A release that keeps a buffer of any capacity
poolable_always(buf) == buf.capacity >= 0

\* The check of release_to_pool before the lock is taken
poolable(buf) == buf.capacity <= PoolMaxCapacity

\* A buffer with its elements: data are the elements it holds (its len is
\* their number), capacity the elements it has room for.

\* vec![value; size]
Vec_from_elem(value, size) ==
    [data |-> AsSeq([i \in 1..size |-> value]), capacity |-> size]

\* A clear that leaves the elements in place
Vec_clear_keeping(v) == [v EXCEPT !.capacity = v.capacity]

\* Vec::clear: no element, the capacity kept
Vec_clear(v) == [v EXCEPT !.data = <<>>]

\* Vec::resize(size, value): the first size elements are kept, the elements
\* added are clones of value.
Vec_resize(v, size, value) ==
    [data |-> AsSeq([i \in 1..size |-> IF i <= Len(v.data) THEN v.data[i] ELSE value]),
     capacity |-> resized_capacity(v.capacity, size)]

\* The data of new_pooled: the last buffer of the pool, cleared and resized,
\* or a new one where the pool is empty.
new_pooled_data(pool_data, size, value) ==
    IF Len(pool_data) > 0
    THEN Vec_resize(Vec_clear(pool_data[Len(pool_data)]), size, value)
    ELSE Vec_from_elem(value, size)

\* The pool after the pop of new_pooled
popped(pool_data) == SubSeq(pool_data, 1, Len(pool_data) - 1)

\* The pool after release_to_pool of a grid whose data is v
release_to_pool(v, pool_data) ==
    IF v.capacity >= Len(v.data) /\ poolable(v) /\ Len(pool_data) < PoolCap
    THEN Append(pool_data, Vec_clear(v))
    ELSE pool_data

\* ---------------------------------------------------------------- terminal
\* The terminal that reads the output: h rows of w shown cells, a cursor
\* (cx = w is the pending-wrap position after the last column) and the SGR
\* colours in force.  Output past the last row is dropped.

Term_new(size) ==
    [w |-> size[1], h |-> size[2],
     cells |-> AsSeq([y \in 1..size[2] |-> AsSeq([x \in 1..size[1] |-> StyledChar_default])]),
     cx |-> 0, cy |-> 0, fg |-> None, bg |-> None]

SgrFg(n) ==
    CASE n = 30 -> "Black" [] n = 31 -> "Red" [] n = 32 -> "Green"
      [] n = 33 -> "Yellow" [] n = 34 -> "Blue" [] n = 35 -> "Magenta"
      [] n = 36 -> "Cyan" [] n = 37 -> "White" [] n = 90 -> "Gray"
      [] OTHER -> None

SgrBg(n) ==
    CASE n = 40 -> "Black" [] n = 41 -> "Red" [] n = 42 -> "Green"
      [] n = 43 -> "Yellow" [] n = 44 -> "Blue" [] n = 45 -> "Magenta"
      [] n = 46 -> "Cyan" [] n = 47 -> "White" [] n = 100 -> "Gray"
      [] OTHER -> None

TermToken(t, tok) ==
    CASE tok[1] = "CUP" ->
           [t EXCEPT !.cx = Min(Max(tok[3], 1), t.w) - 1,
                     !.cy = Min(Max(tok[2], 1), t.h) - 1]
      [] tok[1] = "SGR" ->
           IF tok[2] = 0 THEN [t EXCEPT !.fg = None, !.bg = None]
           ELSE IF tok[2] = 39 THEN [t EXCEPT !.fg = None]
           ELSE IF tok[2] = 49 THEN [t EXCEPT !.bg = None]
           ELSE IF SgrFg(tok[2]) # None THEN [t EXCEPT !.fg = SgrFg(tok[2])]
           ELSE IF SgrBg(tok[2]) # None THEN [t EXCEPT !.bg = SgrBg(tok[2])]
           ELSE t
      [] tok[1] = "ED2" ->
           [t EXCEPT !.cells = AsSeq([y \in 1..t.h |-> AsSeq([x \in 1..t.w |-> StyledChar_default])])]
      [] tok[1] = "CH" ->
           LET x == IF t.cx >= t.w THEN 0 ELSE t.cx
               y == IF t.cx >= t.w THEN t.cy + 1 ELSE t.cy
           IN IF y >= t.h
              THEN t
              ELSE [t EXCEPT !.cells[y + 1][x + 1] =
                                 [ch |-> tok[2], fg_color |-> t.fg, bg_color |-> t.bg],
                             !.cx = x + 1, !.cy = y]

\* The terminal after the tokens lo..hi of toks, read in order (the first half,
\* then the second).
RECURSIVE TermWriteRange(_, _, _, _)
TermWriteRange(t, toks, lo, hi) ==
    IF lo > hi THEN t
    ELSE IF lo = hi THEN TermToken(t, toks[lo])
    ELSE LET mid == (lo + hi) \div 2
             half == TermWriteRange(t, toks, lo, mid)
         IN IF half.w >= 0 THEN TermWriteRange(half, toks, mid + 1, hi) ELSE half

TermWrite(t, toks) == TermWriteRange(t, toks, 1, Len(toks))

\* The cell the terminal shows at column x, row y.
TermCell(t, x, y) == t.cells[y + 1][x + 1]

\* The cell a terminal shows where the string of styled_char is written
\* while the colours fg, bg are in force.
ShownCell(fg, bg, styled_char) ==
    LET one == [w |-> 1, h |-> 1,
                cells |-> << <<StyledChar_default>> >>,
                cx |-> 0, cy |-> 0, fg |-> fg, bg |-> bg]
    IN TermCell(TermWrite(one, StyledChar_to_string(styled_char)), 0, 0)

\* The strings of the cells scs (a sequence), one after another.
RECURSIVE cells_string(_, _, _)
cells_string(scs, lo, hi) ==
    IF lo > hi THEN <<>>
    ELSE IF lo = hi THEN StyledChar_to_string(scs[lo])
    ELSE cells_string(scs, lo, (lo + hi) \div 2) \o cells_string(scs, (lo + hi) \div 2 + 1, hi)

\* crossterm commands, as the bytes they write
MoveTo(x, y) == << <<"CUP", y + 1, x + 1>> >>
ClearAll == << <<"ED2">> >>

IsColoured(sc) == sc.fg_color # None \/ sc.bg_color # None

\* The terminal after MoveTo(x0, y) and the strings of the cells scs.  Where
\* the cells fit in the row this is TermWrite computed cell by cell: a cell's
\* string ends with the reset exactly when the cell has a colour, so a cell
\* is read with the terminal's colours until the first coloured cell and
\* with the default colours after it.
TermPutCells(t, x0, y, scs) ==
    LET n == Len(scs)
        plain == t.fg = None /\ t.bg = None
        blank == ShownCell(None, None, StyledChar_default)
        reset_before(k) == plain \/ \E j \in 1..(k - 1) : IsColoured(scs[j])
        shown(k) == IF reset_before(k)
                    THEN (IF scs[k] = StyledChar_default THEN blank
                          ELSE ShownCell(None, None, scs[k]))
                    ELSE ShownCell(t.fg, t.bg, scs[k])
        any == \E j \in 1..n : IsColoured(scs[j])
    IN IF y < t.h /\ x0 + n <= t.w
       THEN [t EXCEPT !.cells[y + 1] = AsSeq([c \in 1..t.w |->
                                      IF c > x0 /\ c <= x0 + n THEN shown(c - x0) ELSE @[c]]),
                      !.cx = x0 + n, !.cy = y,
                      !.fg = IF any THEN None ELSE @,
                      !.bg = IF any THEN None ELSE @]
       ELSE TermWrite(t, MoveTo(x0, y) \o cells_string(scs, 1, n))

\* ------------------------------------------------------- rendering engine

VARIABLES
    terminal_size,       \* SmartRenderer.terminal_size
    workspace_size,      \* SmartRenderer.workspace_size
    workspace_offset,    \* SmartRenderer.workspace_offset
    last_buffer,         \* SmartRenderer.last_buffer (previous_frame)
    dirty_regions,       \* SmartRenderer.dirty_regions (the dirty queue)
    force_full_refresh,  \* SmartRenderer.force_full_refresh
    buffer,              \* the caller's grid, passed to render
    term,                \* the terminal behind stdout
    out,                 \* the last call: its kind, result and what it wrote
    since,               \* the last of new, force_full_refresh, update_terminal_size
                         \* and a successful render (named by its strategy)
    job,                 \* the render_paged call in progress
    plain_grid,          \* a Plain Grid of the caller (FrameBuffer)
    image,               \* an image of the caller (DynamicImage)
    BUFFER_POOL,         \* the pool of the Plain Grid's storage
    STYLED_BUFFER_POOL,  \* the pool of the Styled Grid's storage
    threads              \* the threads that use the pools: where each one is
                         \* in its call, and the storage it holds

\* What the engine and the grid methods never touch
library == <<image, BUFFER_POOL, STYLED_BUFFER_POOL, threads>>

vars == <<terminal_size, workspace_size, workspace_offset, last_buffer,
          dirty_regions, force_full_refresh, buffer, term, out, since, job, plain_grid,
          library>>

\* An I/O state threaded through the writes of one call: the terminal, the
\* number of execute() calls of the current phase, whether a write failed,
\* the number of writes and of row rewrites done, and the regions that
\* render_region was called with.
IoStart(t) ==
    [term |-> t, n |-> 0, err |-> FALSE, writes |-> 0, rows |-> 0, regions |-> <<>>]
IoPhase(st) == [st EXCEPT !.n = 0]

\* stdout().execute(cmd)?: fails when io names this write.
Exec(st, io, phase, toks) ==
    IF st.err THEN st
    ELSE IF io.phase = phase /\ io.idx = st.n THEN [st EXCEPT !.err = TRUE]
    ELSE [st EXCEPT !.term = TermWrite(@, toks), !.n = @ + 1, !.writes = @ + 1]

\* print!(..)
print(st, toks) ==
    IF st.err THEN st
    ELSE [st EXCEPT !.term = TermWrite(@, toks), !.writes = @ + 1]

\* execute(MoveTo(x, y))? and print! of the strings of the cells scs
ExecPutCells(st, io, phase, x, y, scs) ==
    IF st.err THEN st
    ELSE IF io.phase = phase /\ io.idx = st.n THEN [st EXCEPT !.err = TRUE]
    ELSE [st EXCEPT !.term = TermPutCells(@, x, y, scs), !.n = @ + 1, !.writes = @ + 2]

Workspace(size) ==
    <<Max(saturating_sub(size[1], WorkspaceMargin), MinWorkspaceWidth),
      Max(saturating_sub(size[2], WorkspaceMargin), MinWorkspaceHeight)>>

\* a - b on usize: the wrapped difference, and whether it overflowed.
usize_sub(a, b) == [value |-> (a - b) % (UsizeMax + 1), overflow |-> a < b]

\* `as u16`: the low bits of the word.
as_u16(v) == v % (U16Max + 1)

\* The offset of the workspace ws in a terminal of the given size, as a
\* build without overflow checks computes it: the differences wrap where the
\* terminal is smaller than the workspace.
Offset(size, ws) ==
    <<usize_sub(size[1], ws[1]).value \div 2, usize_sub(size[2], ws[2]).value \div 2>>

\* A build with overflow checks panics where Offset wraps.
OffsetOverflows(size, ws) ==
    usize_sub(size[1], ws[1]).overflow \/ usize_sub(size[2], ws[2]).overflow

workspace_to_terminal(x, y) ==
    <<as_u16(usize_add(x, workspace_offset[1]).value),
      as_u16(usize_add(y, workspace_offset[2]).value)>>

\* terminal_to_workspace(x, y): Some((workspace_x, workspace_y)) or None
terminal_to_workspace(x, y) ==
    IF x >= workspace_offset[1] /\ y >= workspace_offset[2]
       /\ x - workspace_offset[1] < workspace_size[1]
       /\ y - workspace_offset[2] < workspace_size[2]
    THEN <<"Some", x - workspace_offset[1], y - workspace_offset[2]>>
    ELSE <<"None">>

WholeWorkspace == Rect_new(0, 0, workspace_size[1], workspace_size[2])

\* The top or bottom border line: the border colour, a corner, workspace_size.0
\* horizontal bars, a corner, the reset.  The box-drawing characters are named
\* box_dr, box_h, box_dl, box_v, box_ur, box_ul.
BorderLine(left, right) ==
    << <<"SGR", 36>> >>
    \o [i \in 1..(workspace_size[1] + 2) |->
          IF i = 1 THEN <<"CH", left>>
          ELSE IF i = workspace_size[1] + 2 THEN <<"CH", right>>
          ELSE <<"CH", "box_h">>]
    \o << <<"SGR", 0>> >>

BorderSide == << <<"SGR", 36>>, <<"CH", "box_v">>, <<"SGR", 0>> >>

RECURSIVE BorderSides(_, _, _)
BorderSides(st, io, y) ==
    IF y >= workspace_size[2] \/ st.err THEN st
    ELSE LET term_y == as_u16(usize_add(workspace_offset[2], y).value)
             right_x == as_u16(usize_add(workspace_offset[1], workspace_size[1]).value)
             l == IF workspace_offset[1] > 0
                  THEN print(Exec(st, io, "border",
                                  MoveTo(as_u16(saturating_sub(workspace_offset[1], 1)),
                                         term_y)),
                             BorderSide)
                  ELSE st
             r == IF right_x < terminal_size[1]
                  THEN print(Exec(l, io, "border", MoveTo(right_x, term_y)), BorderSide)
                  ELSE l
         IN BorderSides(r, io, y + 1)

draw_workspace_border(st0, io) ==
    LET st == IoPhase(st0)
        top_y == saturating_sub(workspace_offset[2], 1)
        top == IF top_y < terminal_size[2]
               THEN print(Exec(st, io, "border",
                               MoveTo(as_u16(saturating_sub(workspace_offset[1], 1)),
                                      as_u16(top_y))),
                          BorderLine("box_dr", "box_dl"))
               ELSE st
        sides == BorderSides(top, io, 0)
        bottom_y == as_u16(usize_add(workspace_offset[2], workspace_size[2]).value)
    IN IF bottom_y < terminal_size[2]
       THEN print(Exec(sides, io, "border",
                       MoveTo(as_u16(saturating_sub(workspace_offset[1], 1)), bottom_y)),
                  BorderLine("box_ur", "box_ul"))
       ELSE sides

\* The cell loop of render_full, one cell at a time.
RECURSIVE render_full_row(_, _, _, _, _)
render_full_row(st, io, buf, y, x) ==
    IF x >= buf.width \/ st.err THEN st
    ELSE LET p == workspace_to_terminal(x, y)
         IN render_full_row(
                ExecPutCells(st, io, "cells", p[1], p[2], <<StyledFrameBuffer_get(buf, x, y)>>),
                io, buf, y, x + 1)

RECURSIVE render_full_rows(_, _, _, _)
render_full_rows(st, io, buf, y) ==
    IF y >= buf.height \/ st.err THEN st
    ELSE render_full_rows(render_full_row(st, io, buf, y, 0), io, buf, y + 1)

\* The cell loop of render_full: every cell is written at its own terminal
\* position, after its own cursor move.  Where the workspace lies inside the
\* terminal the loop is computed for all cells at once: the first `painted`
\* cells (row-major) are shown, the write after them fails.
render_full_cells(st, io, buf) ==
    LET total == buf.width * buf.height
        painted == IF io.phase = "cells" /\ io.idx < total THEN io.idx ELSE total
        ox == workspace_offset[1]
        oy == workspace_offset[2]
        t == st.term
        plain == t.fg = None /\ t.bg = None
        blank == ShownCell(None, None, StyledChar_default)
        at(x, y) == StyledFrameBuffer_get(buf, x - ox, y - oy)
        shown(x, y) == IF at(x, y) = StyledChar_default THEN blank
                       ELSE ShownCell(None, None, at(x, y))
        is_painted(x, y) ==
            /\ x >= ox /\ x < ox + buf.width
            /\ (y - oy) * buf.width + (x - ox) < painted
        last == painted - 1
    IN IF st.err THEN st
       ELSE IF plain /\ ox + buf.width <= t.w /\ oy + buf.height <= t.h /\ total > 0
       THEN [st EXCEPT
               !.term = IF painted = 0 THEN t
                        ELSE [t EXCEPT
                                !.cells = AsSeq([r \in 1..t.h |->
                                             IF r - 1 < oy \/ (r - 1 - oy) * buf.width >= painted
                                             THEN @[r]
                                             ELSE AsSeq([c \in 1..t.w |->
                                                     IF is_painted(c - 1, r - 1) THEN shown(c - 1, r - 1)
                                                     ELSE @[r][c]])]),
                                !.cx = ox + (last % buf.width) + 1,
                                !.cy = oy + (last \div buf.width)],
               !.n = painted,
               !.writes = @ + 2 * painted,
               !.err = painted < total]
       ELSE render_full_rows(st, io, buf, 0)

render_full(t, io, buf) ==
    LET cleared == Exec(IoStart(t), io, "clear", ClearAll)
        bordered == draw_workspace_border(cleared, io)
    IN render_full_cells(IoPhase(bordered), io, buf)

\* An optimize_dirty_regions that collapses a queue of 20 rects already
optimize_dirty_regions_from_20 ==
    IF Len(dirty_regions) <= 1 THEN dirty_regions
    ELSE IF Len(dirty_regions) >= MaxDirtyRegions THEN <<WholeWorkspace>>
    ELSE dirty_regions

optimize_dirty_regions ==
    IF Len(dirty_regions) <= 1 THEN dirty_regions
    ELSE IF Len(dirty_regions) > MaxDirtyRegions THEN <<WholeWorkspace>>
    ELSE dirty_regions

\* A render_region that rewrites every line of a region
line_changed_always(buf, region, y) == TRUE

\* render_region's comparison of one line of the region with last_buffer
line_changed(buf, region, y) ==
    \E x \in region.x..(Min(region.x + region.width, buf.width) - 1) :
        StyledFrameBuffer_get(buf, x, y) # StyledFrameBuffer_get(last_buffer, x, y)

RECURSIVE render_region_rows(_, _, _, _, _)
render_region_rows(st, io, buf, region, y) ==
    IF y >= Min(region.y + region.height, buf.height) \/ st.err THEN st
    ELSE LET x_end == Min(region.x + region.width, buf.width)
             p == workspace_to_terminal(region.x, y)
             line == AsSeq([k \in 1..(x_end - region.x) |->
                        StyledFrameBuffer_get(buf, region.x + k - 1, y)])
             drawn == ExecPutCells(st, io, "rows", p[1], p[2], line)
         IN render_region_rows(
                IF line_changed(buf, region, y)
                THEN (IF drawn.err THEN drawn ELSE [drawn EXCEPT !.rows = @ + 1])
                ELSE st,
                io, buf, region, y + 1)

render_region(st, io, buf, region) ==
    render_region_rows([st EXCEPT !.regions = Append(@, region)], io, buf, region, region.y)

RECURSIVE render_regions(_, _, _, _, _)
render_regions(st, io, buf, regions, i) ==
    IF i > Len(regions) \/ st.err THEN st
    ELSE render_regions(render_region(st, io, buf, regions[i]), io, buf, regions, i + 1)

render_incremental(t, io, buf) ==
    render_regions(IoStart(t), io, buf, optimize_dirty_regions, 1)

\* The result of render(&buffer): the new engine fields, the terminal and
\* the record of the call.
\* A size check that lets a grid narrower than the workspace through
size_matches_or_narrower(buf) ==
    buf.width <= workspace_size[1] /\ buf.height = workspace_size[2]

\* A commit that keeps the dirty queue, and one that keeps the force_full flag
render_commit_keeping_queue(buf) ==
    [last_buffer |-> buf, dirty_regions |-> dirty_regions, force_full_refresh |-> FALSE]

render_commit_keeping_flag(buf) ==
    [last_buffer |-> buf, dirty_regions |-> <<>>, force_full_refresh |-> force_full_refresh]

\* A commit that keeps the previous frame
render_commit_keeping_frame(buf) ==
    [last_buffer |-> last_buffer, dirty_regions |-> <<>>, force_full_refresh |-> FALSE]

size_matches(buf) == buf.width = workspace_size[1] /\ buf.height = workspace_size[2]

\* The engine fields after the writes of a render succeeded
render_commit(buf) ==
    [last_buffer |-> buf, dirty_regions |-> <<>>, force_full_refresh |-> FALSE]

render(buf, io) ==
    IF ~size_matches(buf)
    THEN [ret |-> "SizeMismatch", strategy |-> "-", term |-> term,
          last_buffer |-> last_buffer, dirty_regions |-> dirty_regions,
          force_full_refresh |-> force_full_refresh,
          regions |-> <<>>, rows |-> 0, writes |-> 0]
    ELSE LET full == force_full_refresh
             st == IF full THEN render_full(term, io, buf)
                   ELSE render_incremental(term, io, buf)
             strategy == IF full THEN "Full" ELSE "Incremental"
             done == render_commit(buf)
         IN IF st.err
            THEN [ret |-> "IoError", strategy |-> strategy, term |-> st.term,
                  last_buffer |-> last_buffer, dirty_regions |-> dirty_regions,
                  force_full_refresh |-> force_full_refresh,
                  regions |-> st.regions, rows |-> st.rows, writes |-> st.writes]
            ELSE [ret |-> IF io.phase = "flush" THEN "IoError" ELSE "Ok",
                  strategy |-> strategy, term |-> st.term,
                  last_buffer |-> done.last_buffer, dirty_regions |-> done.dirty_regions,
                  force_full_refresh |-> done.force_full_refresh,
                  regions |-> st.regions, rows |-> st.rows, writes |-> st.writes]

\* ------------------------------------------------------------ paged render

\* Pages that are page_size wide and high also where the grid ends before
page_rects_unclipped(buf) ==
    LET pages_x == (buf.width + page_size - 1) \div page_size
        pages_y == (buf.height + page_size - 1) \div page_size
    IN AsSeq([k \in 1..(pages_x * pages_y) |->
          Rect_new(((k - 1) % pages_x) * page_size, ((k - 1) \div pages_x) * page_size,
                   page_size, page_size)])

\* The page rects of a grid in the order of the loops that build them: page
\* rows outermost, pages of a row left to right.
page_rects(buf) ==
    LET pages_x == (buf.width + page_size - 1) \div page_size
        pages_y == (buf.height + page_size - 1) \div page_size
    IN AsSeq([k \in 1..(pages_x * pages_y) |->
          LET page_x == (k - 1) % pages_x
              page_y == (k - 1) \div pages_x
              start_x == page_x * page_size
              start_y == page_y * page_size
              end_x == Min(start_x + page_size, buf.width)
              end_y == Min(start_y + page_size, buf.height)
          IN Rect_new(start_x, start_y, end_x - start_x, end_y - start_y)])

\* A page test that compares every cell of the page
is_page_dirty_every_cell(buf, page_rect) ==
    \E x \in page_rect.x..(page_rect.x + page_rect.width - 1),
       y \in page_rect.y..(page_rect.y + page_rect.height - 1) :
        StyledFrameBuffer_get(buf, x, y) # StyledFrameBuffer_get(last_buffer, x, y)

is_page_dirty(buf, page_rect) ==
    LET sample_points == << <<0, 0>>,
                            <<page_rect.width \div 2, page_rect.height \div 2>>,
                            <<page_rect.width - 1, page_rect.height - 1>>,
                            <<page_rect.width \div 4, page_rect.height \div 4>> >>
    IN \E k \in 1..4 :
         LET x == page_rect.x + sample_points[k][1]
             y == page_rect.y + sample_points[k][2]
         IN /\ x < buf.width /\ y < buf.height
            /\ x < last_buffer.width /\ y < last_buffer.height
            /\ StyledFrameBuffer_get(buf, x, y) # StyledFrameBuffer_get(last_buffer, x, y)

identify_dirty_pages(buf) ==
    SelectSeq(page_rects(buf), LAMBDA page_rect : is_page_dirty(buf, page_rect))

\* The style codes and characters of the cells lo..hi of row y of a region:
\* the codes are written where the style differs from the cell before.
RECURSIVE page_row_cells(_, _, _, _, _)
page_row_cells(buf, region, y, lo, hi) ==
    IF lo > hi THEN <<>>
    ELSE IF lo = hi
    THEN LET styled_char == StyledFrameBuffer_get(buf, lo, y)
             before == StyledFrameBuffer_get(buf, lo - 1, y)
             new_style == \/ lo = region.x
                          \/ styled_char.fg_color # before.fg_color
                          \/ styled_char.bg_color # before.bg_color
         IN (IF new_style THEN get_style_codes(styled_char) ELSE <<>>)
            \o << <<"CH", styled_char.ch>> >>
    ELSE page_row_cells(buf, region, y, lo, (lo + hi) \div 2)
         \o page_row_cells(buf, region, y, (lo + hi) \div 2 + 1, hi)

\* One row of a page string: the cursor move, the cells, the reset.
page_row(buf, region, workspace_off, y) ==
    << <<"CUP", as_u16(y + workspace_off[2]) + 1, as_u16(region.x + workspace_off[1]) + 1>> >>
    \o page_row_cells(buf, region, y, region.x, Min(region.x + region.width, buf.width) - 1)
    \o << <<"SGR", 0>> >>

RECURSIVE page_rows(_, _, _, _, _)
page_rows(buf, region, workspace_off, lo, hi) ==
    IF lo > hi THEN <<>>
    ELSE IF lo = hi THEN page_row(buf, region, workspace_off, lo)
    ELSE page_rows(buf, region, workspace_off, lo, (lo + hi) \div 2)
         \o page_rows(buf, region, workspace_off, (lo + hi) \div 2 + 1, hi)

render_page_region_static(buf, region, workspace_off) ==
    page_rows(buf, region, workspace_off, region.y,
              Min(region.y + region.height, buf.height) - 1)

\* No render_paged call in progress.  Of a call in progress: the list of
\* pages, the numbers of the pages computed (in the order the workers
\* finished), the numbers of the pages whose strings page_outputs holds, how
\* many of them are printed, and the page bytes printed so far.
JobIdle ==
    [pc |-> "idle", strategy |-> "-", pages |-> <<>>, finished |-> <<>>,
     page_outputs |-> <<>>, written |-> 0, stream |-> <<>>, log |-> <<>>]

\* The events of a render_paged call, in the order they happen: a write to
\* stdout, or the end of the computation of the string of page number page.
Wrote(what, page) == [ev |-> "write", what |-> what, page |-> page]
Computed(page) == [ev |-> "computed", what |-> "page", page |-> page]

\* A fan-in that returns once one page is computed
pages_ready_after_one(j) == Len(j.finished) >= 1

\* into_par_iter().map(..).collect() returns once every page is computed
pages_ready(j) == Len(j.finished) = Len(j.pages)

\* A collect that takes the strings in the order the workers finished
collect_as_finished(pages, finished) == finished

\* The pages whose strings page_outputs holds, in its order: collect() keeps
\* the order of page_regions, whatever the order the workers finished in.
collect(pages, finished) == AsSeq([k \in 1..Len(pages) |-> k])

\* ------------------------------------------------------------------ inputs

\* Terminal sizes: 42 and 44 columns give the same 40-column workspace at
\* offsets 1 and 2, 45 columns a 41-column workspace.
TermSizes == {<<42, 24>>, <<44, 24>>, <<45, 24>>}
\* Cells the caller writes, and where.
SetCells == {with_fg(StyledChar_new("X"), "Red"), StyledChar_default}
SetPositions == {<<6, 1>>}
\* Rects the caller passes to mark_dirty: the first does not cover (6,1), the
\* second covers it and reaches past the right edge.
MarkRects == {Rect_new(0, 0, 2, 1), Rect_new(5, 1, 100, 1)}

IoOk == [phase |-> "none", idx |-> 0]
IoFlush == [phase |-> "flush", idx |-> 0]
IoFailures(phases) == {[phase |-> p, idx |-> i] : p \in phases, i \in 0..MaxFailIdx}

\* The record of a call that renders nothing.  For a render, after is the
\* value of since when the call began.
Call(op, ret) ==
    [op |-> op, ret |-> ret, strategy |-> "-", after |-> "-",
     regions |-> <<>>, rows |-> 0, writes |-> 0]

\* ----------------------------------------------------------------- actions

\* No image is loaded yet, the pools are empty and no thread uses them.
LibraryStart ==
    /\ image = GrayImage_new(0, 0)
    /\ BUFFER_POOL = Pool_new
    /\ STYLED_BUFFER_POOL = Pool_new
    /\ threads = [t \in Threads |-> ThreadIdle]

\* The engine is borrowed mutably and the grid immutably while render_paged
\* runs: the caller acts only between calls.
Caller == job.pc = "idle" /\ UNCHANGED <<job, plain_grid, library>>

\* SmartRenderer::new() on a terminal of the given size, and the caller's
\* grid of the workspace size.
InitAt(size) ==
    /\ terminal_size = size
    /\ workspace_size = Workspace(size)
    /\ workspace_offset = Offset(size, workspace_size)
    /\ last_buffer = StyledFrameBuffer_new(workspace_size[1], workspace_size[2])
    /\ dirty_regions = <<>>
    /\ force_full_refresh = TRUE
    /\ buffer = StyledFrameBuffer_new(workspace_size[1], workspace_size[2])
    /\ term = Term_new(size)
    /\ out = Call("other", "Ok")
    /\ since = "new"
    /\ job = JobIdle
    /\ plain_grid = FrameBuffer_new(0, 0)
    /\ LibraryStart

Init == InitAt(<<42, 24>>)

\* SmartRenderer::new() that panicked: a build with overflow checks, on a
\* terminal smaller than the workspace.  The program has no engine.
InitPanicked(size) ==
    /\ terminal_size = <<0, 0>>
    /\ workspace_size = <<0, 0>>
    /\ workspace_offset = <<0, 0>>
    /\ last_buffer = StyledFrameBuffer_new(0, 0)
    /\ dirty_regions = <<>>
    /\ force_full_refresh = FALSE
    /\ buffer = StyledFrameBuffer_new(0, 0)
    /\ term = Term_new(size)
    /\ out = Call("new", "Panic")
    /\ since = "new"
    /\ job = JobIdle
    /\ plain_grid = FrameBuffer_new(0, 0)
    /\ LibraryStart

\* SmartRenderer::new() on a terminal of the given size, in either build
InitNew(size) ==
    \/ InitAt(size)
    \/ OffsetOverflows(size, Workspace(size)) /\ InitPanicked(size)

\* The terminal after its window was resized: the cells that remain keep
\* their content.
Term_resize(t, size) ==
    [w |-> size[1], h |-> size[2],
     cells |-> AsSeq([r \in 1..size[2] |-> AsSeq([c \in 1..size[1] |->
                  IF c <= t.w /\ r <= t.h THEN t.cells[r][c] ELSE StyledChar_default])]),
     cx |-> Min(t.cx, size[1] - 1), cy |-> Min(t.cy, size[2] - 1),
     fg |-> t.fg, bg |-> t.bg]

\* update_terminal_size(new_size) in a build with overflow checks, where the
\* terminal is smaller than the workspace: the new size is stored, then the
\* subtraction for the offset panics.
update_terminal_size_panics(new_size) ==
    /\ Caller
    /\ terminal_size' = new_size
    /\ term' = Term_resize(term, new_size)
    /\ out' = Call("update_terminal_size", "Panic")
    /\ UNCHANGED <<workspace_size, workspace_offset, last_buffer, dirty_regions,
                   force_full_refresh, buffer, since>>

\* update_terminal_size(new_size) where no subtraction panics
update_terminal_size_returns(new_size, io) ==
    LET new_ws == Workspace(new_size)
        cleared == Exec(IoStart(Term_resize(term, new_size)), io, "clear", ClearAll)
        moved == Exec(cleared, io, "clear", MoveTo(0, 0))
    IN /\ Caller
       /\ terminal_size' = new_size
       /\ workspace_offset' = Offset(new_size, new_ws)
       /\ IF new_ws # workspace_size
          THEN /\ workspace_size' = new_ws
               /\ last_buffer' = StyledFrameBuffer_resize(last_buffer, new_ws[1], new_ws[2])
               /\ force_full_refresh' = TRUE
          ELSE UNCHANGED <<workspace_size, last_buffer, force_full_refresh>>
       /\ term' = moved.term
       /\ out' = [Call("update_terminal_size", IF moved.err THEN "IoError" ELSE "Ok")
                    EXCEPT !.writes = moved.writes]
       /\ since' = "update_terminal_size"
       /\ UNCHANGED <<dirty_regions, buffer>>

\* update_terminal_size(new_size), the terminal's window having that size
UpdateTerminalSize(new_size, io) ==
    IF OffsetOverflows(new_size, Workspace(new_size))
    THEN \E build \in Builds :
             IF build = "debug"
             THEN update_terminal_size_panics(new_size)
             ELSE update_terminal_size_returns(new_size, io)
    ELSE update_terminal_size_returns(new_size, io)

\* A mark_dirty that queues the rect as it is given
mark_dirty_unclamped(queue, rect) == Append(queue, rect)

\* The queue after mark_dirty(rect)
mark_dirty(queue, rect) ==
    LET clamped_rect ==
            Rect_new(Min(rect.x, workspace_size[1]),
                     Min(rect.y, workspace_size[2]),
                     Min(rect.width, saturating_sub(workspace_size[1], rect.x)),
                     Min(rect.height, saturating_sub(workspace_size[2], rect.y)))
    IN IF clamped_rect.width > 0 /\ clamped_rect.height > 0
       THEN Append(queue, clamped_rect)
       ELSE queue

MarkDirty(rect) ==
    /\ Caller
    /\ dirty_regions' = mark_dirty(dirty_regions, rect)
    /\ out' = Call("other", "Ok")
    /\ UNCHANGED <<terminal_size, workspace_size, workspace_offset, last_buffer,
                   force_full_refresh, buffer, term, since>>

ForceFullRefresh ==
    /\ Caller
    /\ force_full_refresh' = TRUE
    /\ dirty_regions' = mark_dirty(<<>>, WholeWorkspace)
    /\ out' = Call("other", "Ok")
    /\ since' = "force_full_refresh"
    /\ UNCHANGED <<terminal_size, workspace_size, workspace_offset, last_buffer,
                   buffer, term>>

\* The engine, the terminal and the record of the call after a render with
\* the result r
RenderWith(r) ==
    /\ Caller
    /\ term' = r.term
    /\ last_buffer' = r.last_buffer
    /\ dirty_regions' = r.dirty_regions
    /\ force_full_refresh' = r.force_full_refresh
    /\ out' = [op |-> "render", ret |-> r.ret, strategy |-> r.strategy, after |-> since,
               regions |-> r.regions, rows |-> r.rows, writes |-> r.writes]
    /\ since' = IF r.ret = "Ok" THEN r.strategy ELSE since
    /\ UNCHANGED <<terminal_size, workspace_size, workspace_offset, buffer>>

\* render(&buffer), the write named by io failing
Render(io) == RenderWith(render(buffer, io))

\* render(&buffer) where the write named by io is reached
RenderFail(io) == Render(io) /\ out'.ret = "IoError"

\* The writes of a render that can fail, by the strategy it will use
RenderPhases == IF force_full_refresh THEN {"clear", "border", "cells"} ELSE {"rows"}

\* The caller's mutations of its grid
GridUnchanged ==
    Caller /\ UNCHANGED <<terminal_size, workspace_size, workspace_offset, last_buffer,
                dirty_regions, force_full_refresh, term, since>>

BufferSet(x, y, styled_char) ==
    /\ buffer' = StyledFrameBuffer_set(buffer, x, y, styled_char)
    /\ out' = Call("other", "Ok")
    /\ GridUnchanged

BufferClearDirty ==
    /\ buffer' = StyledFrameBuffer_clear_dirty(buffer)
    /\ out' = Call("other", "Ok")
    /\ GridUnchanged

BufferResize(new_width, new_height) ==
    /\ buffer' = StyledFrameBuffer_resize(buffer, new_width, new_height)
    /\ out' = Call("other", "Ok")
    /\ GridUnchanged

GridRoom(fb) == Len(fb.dirty_regions) < MaxGridDirty

\* The caller resizes its grid to the workspace of some terminal size.
BufferFit(size) ==
    /\ GridRoom(buffer)
    /\ <<buffer.width, buffer.height>> # Workspace(size)
    /\ BufferResize(Workspace(size)[1], Workspace(size)[2])

\* The return of render_paged after its writes: the commit and the flush.
PagedReturn(strategy, writes) ==
    LET done == render_commit(buffer)
    IN /\ last_buffer' = done.last_buffer
       /\ dirty_regions' = done.dirty_regions
       /\ force_full_refresh' = done.force_full_refresh
       /\ out' = [Call("render_paged", "Ok") EXCEPT !.strategy = strategy, !.after = since,
                                                    !.writes = writes]
       /\ since' = strategy
       /\ job' = JobIdle

\* render_paged(&buffer) up to the fan-out of the page computations: the size
\* check, then on the full path the clear and the border and the page list,
\* on the incremental path the list of dirty pages (none: the call returns).
PagedStart ==
    /\ job.pc = "idle"
    /\ UNCHANGED <<terminal_size, workspace_size, workspace_offset, buffer, plain_grid, library>>
    /\ IF ~size_matches(buffer)
       THEN /\ out' = [Call("render_paged", "SizeMismatch") EXCEPT !.after = since]
            /\ UNCHANGED <<last_buffer, dirty_regions, force_full_refresh, term, since, job>>
       ELSE IF force_full_refresh
       THEN LET cleared == Exec(IoStart(term), IoOk, "clear", ClearAll)
                bordered == draw_workspace_border(cleared, IoOk)
            IN /\ term' = bordered.term
               /\ job' = [JobIdle EXCEPT !.pc = "compute", !.strategy = "Full",
                                         !.pages = page_rects(buffer),
                                         !.log = <<Wrote("clear", 0), Wrote("border", 0)>>]
               /\ out' = Call("other", "Ok")
               /\ UNCHANGED <<last_buffer, dirty_regions, force_full_refresh, since>>
       ELSE LET dirty_pages == identify_dirty_pages(buffer)
            IN IF dirty_pages = <<>>
               THEN term' = term /\ PagedReturn("Incremental", 0)
               ELSE /\ job' = [JobIdle EXCEPT !.pc = "compute", !.strategy = "Incremental",
                                              !.pages = dirty_pages]
                    /\ out' = Call("other", "Ok")
                    /\ UNCHANGED <<last_buffer, dirty_regions, force_full_refresh, term, since>>

JobStep ==
    UNCHANGED <<terminal_size, workspace_size, workspace_offset, last_buffer,
                dirty_regions, force_full_refresh, buffer, out, since, plain_grid, library>>

\* A worker finishes render_page_region_static for page number i of the list.
PagedWorker(i) ==
    /\ job.pc = "compute"
    /\ i \in 1..Len(job.pages)
    /\ \A k \in 1..Len(job.finished) : job.finished[k] # i
    /\ job' = [job EXCEPT !.finished = Append(@, i), !.log = Append(@, Computed(i))]
    /\ term' = term
    /\ JobStep

\* collect() returns page_outputs.
PagedCollect ==
    /\ job.pc = "compute"
    /\ pages_ready(job)
    /\ job' = [job EXCEPT !.pc = "write", !.page_outputs = collect(job.pages, job.finished)]
    /\ term' = term
    /\ JobStep

\* One turn of the loop that prints page_outputs.
PagedWrite ==
    /\ job.pc = "write"
    /\ job.written < Len(job.page_outputs)
    /\ LET page == job.page_outputs[job.written + 1]
           page_output == render_page_region_static(buffer, job.pages[page], workspace_offset)
       IN /\ term' = TermWrite(term, page_output)
          /\ job' = [job EXCEPT !.written = @ + 1, !.stream = @ \o page_output,
                                !.log = Append(@, Wrote("page", page))]
    /\ JobStep

PagedFinish ==
    /\ job.pc = "write"
    /\ job.written = Len(job.page_outputs)
    /\ term' = term
    /\ PagedReturn(job.strategy, Len(job.log))
    /\ UNCHANGED <<terminal_size, workspace_size, workspace_offset, buffer, plain_grid, library>>

\* The engine and its caller on one terminal size, every write succeeding.
Next ==
    \/ \E r \in MarkRects : Len(dirty_regions) < MaxQueue /\ MarkDirty(r)
    \/ ForceFullRefresh
    \/ Render(IoOk)
    \/ \E p \in SetPositions, c \in SetCells : GridRoom(buffer) /\ BufferSet(p[1], p[2], c)
    \/ BufferClearDirty
    \/ PagedStart
    \/ \E i \in 1..Len(job.pages) : PagedWorker(i)
    \/ PagedCollect
    \/ PagedWrite
    \/ PagedFinish

Spec == Init /\ [][Next]_vars

\* The engine and its caller, the terminal and the grid being resized.
NextResize ==
    \/ \E s \in TermSizes :
           (Workspace(s) = workspace_size \/ GridRoom(last_buffer)) /\ UpdateTerminalSize(s, IoOk)
    \/ \E r \in MarkRects : Len(dirty_regions) < MaxQueueResize /\ MarkDirty(r)
    \/ ForceFullRefresh
    \/ Render(IoOk)
    \/ BufferClearDirty
    \/ \E s \in TermSizes : BufferFit(s)
    \/ PagedStart
    \/ \E i \in 1..Len(job.pages) : PagedWorker(i)
    \/ PagedCollect
    \/ PagedWrite
    \/ PagedFinish

SpecResize == Init /\ [][NextResize]_vars

\* The engine on one terminal size, any one write of a render or the final
\* flush failing.
NextIo ==
    \/ \E r \in MarkRects : Len(dirty_regions) < MaxQueueResize /\ MarkDirty(r)
    \/ ForceFullRefresh
    \/ Render(IoOk)
    \/ \E io \in {IoFlush} \cup IoFailures(RenderPhases) : RenderFail(io)
    \/ \E p \in SetPositions, c \in SetCells : GridRoom(buffer) /\ BufferSet(p[1], p[2], c)
    \/ BufferClearDirty

SpecIo == Init /\ [][NextIo]_vars

\* The rect the caller queues when the queue holds k rects: three cells of
\* row 0 or 1, overlapping the rects queued before and after it.
QueueRect(k) == Rect_new((2 * k) % 8, k % 2, 3, 1)

\* The engine with a long dirty queue.
NextQueue ==
    \/ Len(dirty_regions) < MaxLongQueue /\ MarkDirty(QueueRect(Len(dirty_regions)))
    \/ Render(IoOk)
    \/ \E p \in SetPositions, c \in SetCells : GridRoom(buffer) /\ BufferSet(p[1], p[2], c)
    \/ BufferClearDirty

SpecQueue == Init /\ [][NextQueue]_vars

\* render_paged on a workspace of two rows of two pages, the caller writing
\* one cell of a page between renders.
InitPaged == InitAt(<<69, 69>>)

\* (64,0) is the top-left cell of the second page, (16,16) the quarter-point
\* of the first page, (1,0) a cell of the first page that is not sampled.
SetPositionsPaged == {<<64, 0>>, <<16, 16>>, <<1, 0>>}

NextPaged ==
    \/ \E p \in SetPositionsPaged :
           /\ Len(buffer.dirty_regions) < MaxGridDirtyPaged
           /\ BufferSet(p[1], p[2], with_fg(StyledChar_new("X"), "Red"))
    \/ PagedStart
    \/ \E i \in 1..Len(job.pages) : PagedWorker(i)
    \/ PagedCollect
    \/ PagedWrite
    \/ PagedFinish

SpecPaged == InitPaged /\ [][NextPaged]_vars

\* --------------------------------------------------------- grids on their own

\* The record of a call of a grid method: the method, its arguments and what
\* it returned.
GridCall(op, args) ==
    [op |-> op, ret |-> "Ok", strategy |-> "-", after |-> "-",
     regions |-> <<>>, rows |-> 0, writes |-> 0, args |-> args]

\* A program that builds a Styled Grid and a Plain Grid and no engine: the
\* engine's variables are empty.
InitNoEngine(fb, pl) ==
    /\ terminal_size = <<0, 0>>
    /\ workspace_size = <<0, 0>>
    /\ workspace_offset = <<0, 0>>
    /\ last_buffer = StyledFrameBuffer_new(0, 0)
    /\ dirty_regions = <<>>
    /\ force_full_refresh = FALSE
    /\ buffer = fb
    /\ term = Term_new(<<0, 0>>)
    /\ out = Call("other", "Ok")
    /\ since = "new"
    /\ job = JobIdle
    /\ plain_grid = pl

InitGrids(fb, pl) == InitNoEngine(fb, pl) /\ LibraryStart

\* Room in the dirty list of a grid used on its own
ListRoom == Len(buffer.dirty_regions) < MaxGridList

\* A method of the Styled Grid: fb is the grid after the call.
StyledCall(op, args, fb) ==
    /\ buffer' = fb
    /\ out' = GridCall(op, args)
    /\ GridUnchanged

\* A method of the Plain Grid: fb is the grid after the call.
PlainCall(op, args, fb) ==
    /\ plain_grid' = fb
    /\ out' = GridCall(op, args)
    /\ job.pc = "idle"
    /\ UNCHANGED <<terminal_size, workspace_size, workspace_offset, last_buffer,
                   dirty_regions, force_full_refresh, buffer, term, since, job, library>>

\* was and entries are the cell at (x, y) and the length of the dirty list
\* when the call began; again tells that the call before was the same call.
GridSet(x, y, styled_char) ==
    StyledCall("StyledFrameBuffer::set",
               [x |-> x, y |-> y, value |-> styled_char,
                was |-> StyledFrameBuffer_get(buffer, x, y),
                entries |-> Len(buffer.dirty_regions),
                again |-> /\ out.op = "StyledFrameBuffer::set"
                          /\ out.args.x = x /\ out.args.y = y
                          /\ out.args.value = styled_char],
               StyledFrameBuffer_set(buffer, x, y, styled_char))

GridGet(x, y) ==
    StyledCall("StyledFrameBuffer::get",
               [x |-> x, y |-> y, value |-> StyledFrameBuffer_get(buffer, x, y)], buffer)

GridClear == StyledCall("StyledFrameBuffer::clear", <<>>, StyledFrameBuffer_clear(buffer))

GridClearWith(styled_char) ==
    StyledCall("StyledFrameBuffer::clear_with", [value |-> styled_char],
               StyledFrameBuffer_clear_with(buffer, styled_char))

GridClearDirty ==
    StyledCall("StyledFrameBuffer::clear_dirty", <<>>, StyledFrameBuffer_clear_dirty(buffer))

PlainSet(x, y, ch) ==
    PlainCall("FrameBuffer::set", [x |-> x, y |-> y, value |-> ch],
              FrameBuffer_set(plain_grid, x, y, ch))

PlainGet(x, y) ==
    PlainCall("FrameBuffer::get", [x |-> x, y |-> y, value |-> FrameBuffer_get(plain_grid, x, y)],
              plain_grid)

PlainClear == PlainCall("FrameBuffer::clear", <<>>, FrameBuffer_clear(plain_grid))

\* Coordinates passed to a grid of the given extent: every one inside it, the
\* first one outside it and the largest usize.
Coordinates(extent) == 0..extent \cup {UsizeMax}

\* Characters written to a Plain Grid
PlainChars == {"X", " "}

\* Either a Styled Grid of 2 columns and 2 rows or a Plain Grid of that size.
InitGrid ==
    \/ InitGrids(StyledFrameBuffer_new(2, 2), FrameBuffer_new(0, 0))
    \/ InitGrids(StyledFrameBuffer_new(0, 0), FrameBuffer_new(2, 2))

\* The cell methods of the two grids.
NextGrid ==
    \/ \E x \in Coordinates(buffer.width), y \in Coordinates(buffer.height), c \in SetCells :
           ListRoom /\ GridSet(x, y, c)
    \/ \E x \in Coordinates(buffer.width), y \in Coordinates(buffer.height) : GridGet(x, y)
    \/ ListRoom /\ GridClear
    \/ \E c \in SetCells : ListRoom /\ GridClearWith(c)
    \/ GridClearDirty
    \/ \E x \in Coordinates(plain_grid.width), y \in Coordinates(plain_grid.height),
          ch \in PlainChars : PlainSet(x, y, ch)
    \/ \E x \in Coordinates(plain_grid.width), y \in Coordinates(plain_grid.height) :
           PlainGet(x, y)
    \/ PlainClear

SpecGrid == InitGrid /\ [][NextGrid]_vars

\* The dimensions before the call and the length of the dirty list then are
\* kept with the arguments.
GridResize(new_width, new_height) ==
    StyledCall("StyledFrameBuffer::resize",
               [width |-> new_width, height |-> new_height,
                old_width |-> buffer.width, old_height |-> buffer.height,
                entries |-> Len(buffer.dirty_regions)],
               StyledFrameBuffer_resize(buffer, new_width, new_height))

\* A grid of one row that holds A, B, C, its dirty list emptied after the
\* three writes.
GridABC ==
    LET a == StyledFrameBuffer_set(StyledFrameBuffer_new(3, 1), 0, 0, StyledChar_new("A"))
        b == StyledFrameBuffer_set(a, 1, 0, with_fg(StyledChar_new("B"), "Red"))
        c == StyledFrameBuffer_set(b, 2, 0, with_bg(StyledChar_new("C"), "Blue"))
    IN StyledFrameBuffer_clear_dirty(c)

\* Dimensions passed to resize: wider, narrower, taller, and without cells.
ResizeDims == {<<3, 1>>, <<5, 1>>, <<2, 2>>, <<1, 3>>, <<0, 2>>}

InitGridResize == InitGrids(GridABC, FrameBuffer_new(0, 0))

NextGridResize ==
    \/ \E d \in ResizeDims : ListRoom /\ GridResize(d[1], d[2])
    \/ \E x \in Coordinates(buffer.width), y \in Coordinates(buffer.height) : GridGet(x, y)
    \/ GridClearDirty

SpecGridResize == InitGridResize /\ [][NextGridResize]_vars

\* The grids that blit copies from: one row that holds P and Q.
SrcStyled ==
    StyledFrameBuffer_set(
        StyledFrameBuffer_set(StyledFrameBuffer_new(2, 1), 0, 0, with_fg(StyledChar_new("P"), "Red")),
        1, 0, StyledChar_new("Q"))

SrcPlain == FrameBuffer_set(FrameBuffer_set(FrameBuffer_new(2, 1), 0, 0, "P"), 1, 0, "Q")

\* Source rectangles: inside the source, past its right edge, past both
\* edges, and with x or y the largest usize.
BlitRects ==
    {Rect_new(0, 0, 2, 1), Rect_new(1, 0, 2, 2), Rect_new(0, 0, 3, 3),
     Rect_new(UsizeMax, 0, 2, 1), Rect_new(0, UsizeMax, 1, 2)}

\* Destination positions: inside the destination, outside it, and with x the
\* largest usize.
BlitTargets == {<<0, 0>>, <<1, 1>>, <<2, 0>>, <<UsizeMax, 1>>}

\* The arguments of a blit and the build that runs it
BlitArgs(src_rect, dst, build) ==
    [src_x |-> src_rect.x, src_y |-> src_rect.y, width |-> src_rect.width,
     height |-> src_rect.height, dst_x |-> dst[1], dst_y |-> dst[2], build |-> build]

\* The call returns, or panics part-way (the grid as the panic left it).
Returned(op, args, panic) == [GridCall(op, args) EXCEPT !.ret = IF panic THEN "Panic" ELSE "Ok"]

GridBlit(src, src_rect, dst, build) ==
    LET done == StyledFrameBuffer_blit(buffer, src, src_rect, dst[1], dst[2], build)
    IN /\ buffer' = done.fb
       /\ out' = Returned("StyledFrameBuffer::blit", BlitArgs(src_rect, dst, build), done.panic)
       /\ GridUnchanged

PlainBlit(src, src_rect, dst, build) ==
    LET done == FrameBuffer_blit(plain_grid, src, src_rect.x, src_rect.y, dst[1], dst[2],
                                src_rect.width, src_rect.height, build)
    IN /\ plain_grid' = done.fb
       /\ out' = Returned("FrameBuffer::blit", BlitArgs(src_rect, dst, build), done.panic)
       /\ job.pc = "idle"
       /\ UNCHANGED <<terminal_size, workspace_size, workspace_offset, last_buffer,
                      dirty_regions, force_full_refresh, buffer, term, since, job, library>>

\* The list of the destination is empty when a blit begins.
NextBlit ==
    \/ \E r \in BlitRects, d \in BlitTargets, b \in Builds :
           buffer.dirty_regions = <<>> /\ GridBlit(SrcStyled, r, d, b)
    \/ ListRoom /\ GridClear
    \/ GridClearDirty
    \/ \E r \in BlitRects, d \in BlitTargets, b \in Builds :
           PlainBlit(SrcPlain, r, d, b)
    \/ PlainClear

SpecBlit == InitGrid /\ [][NextBlit]_vars

GridForceRefresh ==
    StyledCall("StyledFrameBuffer::force_refresh", <<>>, StyledFrameBuffer_force_refresh(buffer))

GridDrawText(x, y, text, fg_color, bg_color) ==
    StyledCall("StyledFrameBuffer::draw_text", [x |-> x, y |-> y, text |-> text],
               StyledFrameBuffer_draw_text(buffer, x, y, text, fg_color, bg_color))

GridDrawRect(rect, ch, fg_color, bg_color, build) ==
    LET done == StyledFrameBuffer_draw_rect(buffer, rect, ch, fg_color, bg_color, build)
    IN /\ buffer' = done.fb
       /\ out' = Returned("StyledFrameBuffer::draw_rect", [rect |-> rect, build |-> build],
                          done.panic)
       /\ GridUnchanged

GridDrawBorder(rect, fg_color, build) ==
    LET done == StyledFrameBuffer_draw_border(buffer, rect, fg_color, build)
    IN /\ buffer' = done.fb
       /\ out' = Returned("StyledFrameBuffer::draw_border", [rect |-> rect, build |-> build],
                          done.panic)
       /\ GridUnchanged

GridDrawMouseCursor(x, y, visible) ==
    StyledCall("StyledFrameBuffer::draw_mouse_cursor", [x |-> x, y |-> y, visible |-> visible],
               StyledFrameBuffer_draw_mouse_cursor(buffer, x, y, visible))

\* The grid is used on its own: no engine was constructed.
Alone == terminal_size = <<0, 0>>

\* Either a Styled Grid of 2 columns and 2 rows on its own, or the engine on
\* a 42x24 terminal and the caller's grid of the workspace size.
InitDirty ==
    \/ InitGrids(StyledFrameBuffer_new(2, 2), FrameBuffer_new(0, 0))
    \/ Init

\* Every method that writes to the small grid, with one choice of arguments
\* each.
NextDirtyAlone ==
    \/ \E c \in SetCells : GridSet(1, 0, c)
    \/ GridBlit(SrcStyled, Rect_new(0, 0, 2, 1), <<0, 1>>, "release")
    \/ GridClear
    \/ GridClearWith(with_fg(StyledChar_new("X"), "Red"))
    \/ \E d \in {<<2, 2>>, <<3, 2>>} : GridResize(d[1], d[2])
    \/ GridForceRefresh
    \/ GridDrawText(0, 0, <<"H", "\n", "i">>, "Green", None)
    \/ \E b \in Builds : GridDrawRect(Rect_new(1, 1, UsizeMax, 1), "#", None, "Blue", b)
    \/ \E b \in Builds : GridDrawBorder(Rect_new(0, 0, 9, 9), "Cyan", b)
    \/ GridDrawMouseCursor(1, 1, TRUE)

\* The methods of a grid on its own, its dirty list bounded, and the renders
\* of the engine between writes to its grid.
NextDirty ==
    \/ Alone /\ ListRoom /\ NextDirtyAlone
    \/ \E p \in SetPositions, c \in SetCells :
           ~Alone /\ ListRoom /\ GridSet(p[1], p[2], c)
    \/ GridClearDirty
    \/ Render(IoOk)
    \/ PagedStart
    \/ \E i \in 1..Len(job.pages) : PagedWorker(i)
    \/ PagedCollect
    \/ PagedWrite
    \/ PagedFinish

SpecDirty == InitDirty /\ [][NextDirty]_vars

GridToString ==
    StyledCall("StyledFrameBuffer::to_string", [value |-> StyledFrameBuffer_to_string(buffer)],
               buffer)

\* Dimensions of the grids that are serialized
StringDims == {<<1, 1>>, <<3, 1>>, <<2, 2>>, <<1, 3>>}

\* Cells the grids are filled with, and written over one cell
StringCells ==
    {with_bg(with_fg(StyledChar_new("a"), "Red"), "Blue"),
     with_bg(with_fg(StyledChar_new("b"), "Red"), "Blue"),
     with_fg(StyledChar_new("c"), "Green"),
     StyledChar_default}

InitString == \E d \in StringDims : InitGrids(StyledFrameBuffer_new(d[1], d[2]), FrameBuffer_new(0, 0))

\* A grid is filled with one cell, one of its cells is written over, and it
\* is serialized.
NextString ==
    \/ \E c \in StringCells : ListRoom /\ GridClearWith(c)
    \/ \E c \in StringCells : ListRoom /\ GridSet(0, 0, c)
    \/ GridToString
    \/ GridClearDirty

SpecString == InitString /\ [][NextString]_vars

\* A program keeps a snapshot of its grid (a clone) and serializes the grid
\* against it.
GridClone ==
    /\ last_buffer' = buffer
    /\ out' = GridCall("StyledFrameBuffer::clone", <<>>)
    /\ Caller
    /\ UNCHANGED <<terminal_size, workspace_size, workspace_offset, buffer,
                   dirty_regions, force_full_refresh, term, since>>

GridRenderPartial ==
    StyledCall("StyledFrameBuffer::render_partial",
               [value |-> StyledFrameBuffer_render_partial(buffer, last_buffer)], buffer)

\* Dimensions of the grids that are serialized against a snapshot
PartialDims == {<<2, 2>>, <<3, 1>>, <<1, 3>>}

\* Cells written before a partial serialization
PartialCells ==
    {with_bg(with_fg(StyledChar_new("a"), "Red"), "Blue"),
     with_fg(StyledChar_new("b"), "Red"),
     StyledChar_new("b")}

InitPartial ==
    \E d \in PartialDims : InitGrids(StyledFrameBuffer_new(d[1], d[2]), FrameBuffer_new(0, 0))

\* The first and the last cell of the grid are written, the grid is cloned
\* and it is serialized against the clone; until the first clone the
\* snapshot is the empty grid, of another size.
NextPartial ==
    \/ \E c \in PartialCells : ListRoom /\ GridSet(0, 0, c)
    \/ \E c \in PartialCells : ListRoom /\ GridSet(buffer.width - 1, buffer.height - 1, c)
    \/ GridClone
    \/ GridRenderPartial
    \/ GridClearDirty

SpecPartial == InitPartial /\ [][NextPartial]_vars

\* The caller loads an image.
ImageLoad(img) ==
    /\ image' = img
    /\ out' = GridCall("DynamicImage::new", [width |-> img.width, height |-> img.height])
    /\ job.pc = "idle"
    /\ UNCHANGED <<terminal_size, workspace_size, workspace_offset, last_buffer,
                   dirty_regions, force_full_refresh, buffer, term, since, job, plain_grid,
                   BUFFER_POOL, STYLED_BUFFER_POOL, threads>>

\* The record of a conversion: img is the scaled image and grid the grid
\* that was returned; the record of a conversion that made no grid has
\* neither.
BrailleCall(op, max_width, max_height, threshold, build, done) ==
    /\ out' = [GridCall(op, IF done.ret = "Ok"
                            THEN [max_width |-> max_width, max_height |-> max_height,
                                  threshold |-> threshold, build |-> build,
                                  img |-> done.img, grid |-> done.fb]
                            ELSE [max_width |-> max_width, max_height |-> max_height,
                                  threshold |-> threshold, build |-> build])
                 EXCEPT !.ret = done.ret]
    /\ job.pc = "idle"
    /\ UNCHANGED <<terminal_size, workspace_size, workspace_offset, last_buffer,
                   dirty_regions, force_full_refresh, buffer, term, since, job, plain_grid,
                   library>>

\* The caller converts its image.
ImageToBraille(max_width, max_height, build) ==
    \E done \in image_to_braille_fb(image, max_width, max_height, build) :
        BrailleCall("image_to_braille_fb", max_width, max_height, DefaultThreshold, build, done)

ImageToBrailleWithThreshold(max_width, max_height, threshold, build) ==
    \E done \in image_to_braille_fb_with_threshold(image, max_width, max_height,
                                                   threshold, build) :
        BrailleCall("image_to_braille_fb_with_threshold", max_width, max_height, threshold,
                    build, done)

\* A 2 x 4 image with one bright pixel, at (x, y)
OneBright(x, y) == [GrayImage_new(2, 4) EXCEPT !.data[y * 2 + x + 1] = 255]

\* The images that are converted: black images of several sizes (the
\* 4 x 8 one is the image of test_image_to_braille_fb), the images of one
\* bright pixel, and images with pixels at and just over the default
\* threshold.
BrailleImages ==
    {GrayImage_new(d[1], d[2]) :
        d \in {<<0, 0>>, <<1, 1>>, <<4, 8>>, <<3, 5>>, <<6, 4>>, <<5, 9>>}}
    \cup {OneBright(x, y) : x \in 0..1, y \in 0..3}
    \cup {[width |-> 3, height |-> 5,
           data |-> AsSeq([i \in 1..15 |-> IF i % 2 = 0 THEN 128 ELSE 129])],
          [width |-> 2, height |-> 4,
           data |-> <<0, 128, 129, 255, 255, 129, 128, 0>>]}

\* The sizes asked of a conversion: none, small ones, and the least ones
\* whose pixel sizes (twice the width, four times the height) overflow.
BrailleWidths == {0, 1, 2, UsizeMax \div 2 + 1}
BrailleHeights == {0, 1, 2, UsizeMax \div 4 + 1}
Thresholds == {0, 128, 255}

InitBraille == InitGrids(StyledFrameBuffer_new(0, 0), FrameBuffer_new(0, 0))

\* A program that loads an image and converts it, time and again
NextBraille ==
    \/ \E img \in BrailleImages : ImageLoad(img)
    \/ /\ out.op = "DynamicImage::new"
       /\ \E w \in BrailleWidths, h \in BrailleHeights, build \in Builds :
              ImageToBraille(w, h, build)
    \/ /\ out.op = "DynamicImage::new"
       /\ \E w \in BrailleWidths, h \in BrailleHeights, threshold \in Thresholds,
             build \in Builds :
              ImageToBrailleWithThreshold(w, h, threshold, build)

SpecBraille == InitBraille /\ [][NextBraille]_vars

\* The record of a call of a coordinate mapping
MapCall(op, x, y, value) ==
    /\ out' = GridCall(op, [x |-> x, y |-> y, value |-> value])
    /\ Caller
    /\ UNCHANGED <<terminal_size, workspace_size, workspace_offset, last_buffer,
                   dirty_regions, force_full_refresh, buffer, term, since>>

WorkspaceToTerminal(x, y) ==
    MapCall("workspace_to_terminal", x, y, workspace_to_terminal(x, y))

TerminalToWorkspace(x, y) ==
    MapCall("terminal_to_workspace", x, y, terminal_to_workspace(x, y))

\* Terminal sizes: smaller than the least workspace in one axis or in both,
\* of the least workspace, and larger, with even and odd margins.
PlaceSizes == {<<30, 10>>, <<39, 24>>, <<40, 20>>, <<41, 23>>, <<44, 24>>, <<47, 21>>}

\* An engine exists.
Engine == out.ret # "Panic" \/ out.op # "new"

\* Workspace cells: the corners of the workspace and a cell inside it
PlaceCells ==
    {<<0, 0>>, <<workspace_size[1] - 1, 0>>, <<0, workspace_size[2] - 1>>,
     <<workspace_size[1] - 1, workspace_size[2] - 1>>, <<6, 1>>}

\* Terminal positions: the first and the last one, the positions of the
\* first and of the last workspace cell, and the positions next to the
\* workspace on each side, where the offsets are as large as positions.
PlacePositions ==
    LET left == as_u16(workspace_offset[1])
        top == as_u16(workspace_offset[2])
        right == as_u16(workspace_offset[1] + workspace_size[1])
        bottom == as_u16(workspace_offset[2] + workspace_size[2])
    IN {<<0, 0>>, <<terminal_size[1] - 1, terminal_size[2] - 1>>,
        <<left, top>>, <<saturating_sub(right, 1), saturating_sub(bottom, 1)>>,
        <<saturating_sub(left, 1), top>>, <<left, saturating_sub(top, 1)>>,
        <<right, top>>, <<left, bottom>>}

InitPlace == \E size \in PlaceSizes : InitNew(size)

\* The terminal is resized and coordinates are mapped: a cell to its
\* position, a position to its cell, and the position a cell was mapped to
\* back to a cell.
NextPlace ==
    \/ \E s \in PlaceSizes :
           /\ Engine
           /\ Workspace(s) = workspace_size \/ GridRoom(last_buffer)
           /\ UpdateTerminalSize(s, IoOk)
    \/ \E c \in PlaceCells : Engine /\ WorkspaceToTerminal(c[1], c[2])
    \/ \E p \in PlacePositions : Engine /\ TerminalToWorkspace(p[1], p[2])
    \/ /\ Engine
       /\ out.op = "workspace_to_terminal"
       /\ TerminalToWorkspace(out.args.value[1], out.args.value[2])

SpecPlace == InitPlace /\ [][NextPlace]_vars

\* Terminal sizes for the border: a workspace with a margin on every side,
\* one that touches the left and the right edge of the terminal, and one
\* that touches the top and the bottom edge.
BorderSizes == {<<42, 24>>, <<40, 26>>, <<44, 20>>}

InitBorder == \E size \in BorderSizes : InitAt(size)

\* The engine on one of these terminals: renders whose writes succeed, and
\* renders where a write of the border or of the cells fails.
NextBorder ==
    \/ \E r \in MarkRects : Len(dirty_regions) < MaxQueueResize /\ MarkDirty(r)
    \/ ForceFullRefresh
    \/ Render(IoOk)
    \/ \E io \in IoFailures(RenderPhases \ {"clear"}) : RenderFail(io)
    \/ \E p \in SetPositions, c \in SetCells : GridRoom(buffer) /\ BufferSet(p[1], p[2], c)
    \/ BufferClearDirty

SpecBorder == InitBorder /\ [][NextBorder]_vars

\* ------------------------------------------------------------ spec: pools
\* Threads that build Plain and Styled Grids, from the pools or not, and give
\* Plain Grids back.  A call on a pool is a sequence of steps of its thread:
\* taking the lock, the steps inside the lock, and leaving the block that
\* drops the guard.  Vec::pop and the test and push of release_to_pool are
\* two steps each, which only the lock keeps together.  A Styled Grid has
\* no release_to_pool: nothing is ever pushed on STYLED_BUFFER_POOL.

PoolOf(kind) == IF kind = "plain" THEN BUFFER_POOL ELSE STYLED_BUFFER_POOL

SetPool(kind, pool) ==
    IF kind = "plain"
    THEN BUFFER_POOL' = pool /\ UNCHANGED STYLED_BUFFER_POOL
    ELSE STYLED_BUFFER_POOL' = pool /\ UNCHANGED BUFFER_POOL

\* The identities of the buffers that exist
LiveIds ==
    {BUFFER_POOL.data[i].id : i \in 1..Len(BUFFER_POOL.data)}
        \cup {STYLED_BUFFER_POOL.data[i].id : i \in 1..Len(STYLED_BUFFER_POOL.data)}
        \cup {threads[t].held.id : t \in Threads}
        \cup {threads[t].seen.id : t \in Threads}

\* vec![..; size]: a new buffer, of capacity size
Allocated(size) ==
    [id |-> CHOOSE n \in 1..(Cardinality(LiveIds) + 1) : n \notin LiveIds, capacity |-> size]

PoolStep(t, rec) ==
    /\ threads' = [threads EXCEPT ![t] = rec]
    /\ UNCHANGED <<terminal_size, workspace_size, workspace_offset, last_buffer, dirty_regions,
                   force_full_refresh, buffer, term, since, job, plain_grid, out, image>>

\* FrameBuffer::new, StyledFrameBuffer::new
GridNew(t, kind, size) ==
    /\ threads[t].pc = "idle" /\ threads[t].held.id = 0
    /\ threads[t].calls < MaxPoolCalls
    /\ PoolStep(t, [threads[t] EXCEPT !.kind = kind, !.size = size, !.held = Allocated(size),
                                      !.calls = @ + 1])
    /\ UNCHANGED <<BUFFER_POOL, STYLED_BUFFER_POOL>>

\* The grid of a thread goes out of scope.
GridDrop(t) ==
    /\ threads[t].pc = "idle" /\ threads[t].held.id # 0
    /\ PoolStep(t, [threads[t] EXCEPT !.held = NoBuffer])
    /\ UNCHANGED <<BUFFER_POOL, STYLED_BUFFER_POOL>>

\* new_pooled is called: size is computed.
NewPooledCall(t, kind, size) ==
    /\ threads[t].pc = "idle" /\ threads[t].held.id = 0
    /\ threads[t].calls < MaxPoolCalls
    /\ PoolStep(t, [threads[t] EXCEPT !.pc = "new_pooled:lock", !.kind = kind, !.size = size,
                                      !.calls = @ + 1])
    /\ UNCHANGED <<BUFFER_POOL, STYLED_BUFFER_POOL>>

\* new_pooled: the lock
NewPooledLock(t) ==
    /\ threads[t].pc = "new_pooled:lock"
    /\ lock_free(PoolOf(threads[t].kind))
    /\ SetPool(threads[t].kind, [PoolOf(threads[t].kind) EXCEPT !.owner = t])
    /\ PoolStep(t, [threads[t] EXCEPT !.pc = "new_pooled:pop"])

\* new_pooled: pool.pop() finds the last buffer, or none and a buffer is
\* allocated.
NewPooledPop(t) ==
    LET me == threads[t]
        pool == PoolOf(me.kind)
    IN /\ me.pc = "new_pooled:pop"
       /\ IF Len(pool.data) = 0
          THEN PoolStep(t, [me EXCEPT !.pc = "new_pooled:unlock", !.held = Allocated(me.size)])
          ELSE PoolStep(t, [me EXCEPT !.pc = "new_pooled:take", !.seen = pool.data[Len(pool.data)]])
       /\ UNCHANGED <<BUFFER_POOL, STYLED_BUFFER_POOL>>

\* new_pooled: pool.pop() takes the buffer out; it is cleared and resized.
NewPooledTake(t) ==
    LET me == threads[t]
        pool == PoolOf(me.kind)
    IN /\ me.pc = "new_pooled:take"
       /\ SetPool(me.kind, [pool EXCEPT !.data = SubSeq(@, 1, Len(@) - 1)])
       /\ PoolStep(t, [me EXCEPT !.pc = "new_pooled:unlock", !.seen = NoBuffer,
                                 !.held = [id |-> me.seen.id,
                                           capacity |-> resized_capacity(me.seen.capacity,
                                                                         me.size)]])

\* new_pooled: the guard is dropped and the grid returned.
NewPooledUnlock(t) ==
    /\ threads[t].pc = "new_pooled:unlock"
    /\ SetPool(threads[t].kind, [PoolOf(threads[t].kind) EXCEPT !.owner = 0])
    /\ PoolStep(t, [threads[t] EXCEPT !.pc = "idle"])

\* release_to_pool is called on a Plain Grid: the capacity is tested, and a
\* grid that fails the test is dropped.
ReleaseCall(t) ==
    LET me == threads[t]
    IN /\ me.pc = "idle" /\ me.held.id # 0 /\ me.kind = "plain"
       /\ me.calls < MaxPoolCalls
       /\ IF poolable(me.held)
          THEN PoolStep(t, [me EXCEPT !.pc = "release_to_pool:lock", !.calls = @ + 1])
          ELSE PoolStep(t, [me EXCEPT !.held = NoBuffer, !.calls = @ + 1])
       /\ UNCHANGED <<BUFFER_POOL, STYLED_BUFFER_POOL>>

\* release_to_pool: the lock
ReleaseLock(t) ==
    /\ threads[t].pc = "release_to_pool:lock"
    /\ lock_free(BUFFER_POOL)
    /\ SetPool("plain", [BUFFER_POOL EXCEPT !.owner = t])
    /\ PoolStep(t, [threads[t] EXCEPT !.pc = "release_to_pool:len"])

\* release_to_pool: pool.len() < 16
ReleaseLen(t) ==
    /\ threads[t].pc = "release_to_pool:len"
    /\ PoolStep(t, [threads[t] EXCEPT
                        !.pc = IF Len(BUFFER_POOL.data) < PoolCap THEN "release_to_pool:push"
                               ELSE "release_to_pool:unlock"])
    /\ UNCHANGED <<BUFFER_POOL, STYLED_BUFFER_POOL>>

\* release_to_pool: the buffer is cleared and pushed.
ReleasePush(t) ==
    /\ threads[t].pc = "release_to_pool:push"
    /\ SetPool("plain", [BUFFER_POOL EXCEPT !.data = Append(@, threads[t].held)])
    /\ PoolStep(t, [threads[t] EXCEPT !.pc = "release_to_pool:unlock", !.held = NoBuffer])

\* release_to_pool: the guard is dropped, and the grid with what it holds.
ReleaseUnlock(t) ==
    /\ threads[t].pc = "release_to_pool:unlock"
    /\ SetPool("plain", [BUFFER_POOL EXCEPT !.owner = 0])
    /\ PoolStep(t, [threads[t] EXCEPT !.pc = "idle", !.held = NoBuffer])

\* The sizes of the grids the threads build: small, the largest that a pool
\* keeps, and one more
PoolSizes == {4, PoolMaxCapacity, PoolMaxCapacity + 1}

PoolKinds == {"plain", "styled"}

\* The pool of the Plain Grid after n small grids were released
Pooled(n) == [owner |-> 0, data |-> [i \in 1..n |-> [id |-> i, capacity |-> 4]]]

\* The program has released no grid, or all but one of those the pool keeps.
InitPool ==
    /\ InitNoEngine(StyledFrameBuffer_new(1, 1), FrameBuffer_new(1, 1))
    /\ image = GrayImage_new(0, 0)
    /\ \E n \in {0, PoolCap - 1} : BUFFER_POOL = Pooled(n)
    /\ STYLED_BUFFER_POOL = Pool_new
    /\ threads = [t \in Threads |-> ThreadIdle]

NextPool ==
    \E t \in Threads :
        \/ \E kind \in PoolKinds, size \in PoolSizes : GridNew(t, kind, size)
        \/ GridDrop(t)
        \/ \E kind \in PoolKinds, size \in PoolSizes : NewPooledCall(t, kind, size)
        \/ NewPooledLock(t)
        \/ NewPooledPop(t)
        \/ NewPooledTake(t)
        \/ NewPooledUnlock(t)
        \/ ReleaseCall(t)
        \/ ReleaseLock(t)
        \/ ReleaseLen(t)
        \/ ReleasePush(t)
        \/ ReleaseUnlock(t)

SpecPool == InitPool /\ [][NextPool]_vars

\* ---------------------------------------------------- spec: the failing sink
\* The engine on a workspace of two pages, the terminal sink failing at one
\* write of a call.  stdout().execute(..)? and
\* stdout().flush()? return the failure; print! panics on it.  What print!
\* is given goes to the buffer of stdout and reaches the sink within print!
\* only where it does not fit: the model fails print! only on a string of at
\* least StdoutCapacity tokens, each token being a byte or more, and lets
\* the flush that follows fail for the shorter ones.

\* print!(page_output) writes to the sink itself.
reaches_sink(page_output) == Len(page_output) >= StdoutCapacity

\* render_paged(&buffer) on the full path, the write named by io failing:
\* the clear or a write of the border.
PagedStartFail(io) ==
    LET cleared == Exec(IoStart(term), io, "clear", ClearAll)
        bordered == draw_workspace_border(cleared, io)
    IN /\ Caller
       /\ size_matches(buffer) /\ force_full_refresh
       /\ bordered.err
       /\ term' = bordered.term
       /\ out' = [Call("render_paged", "IoError") EXCEPT !.after = since,
                                                         !.writes = bordered.writes]
       /\ UNCHANGED <<terminal_size, workspace_size, workspace_offset, last_buffer,
                      dirty_regions, force_full_refresh, buffer, since>>

\* One turn of the loop that prints page_outputs, the sink failing: the
\* write fails within print!, which panics.
PagedWritePanics ==
    /\ job.pc = "write"
    /\ job.written < Len(job.page_outputs)
    /\ reaches_sink(render_page_region_static(buffer, job.pages[job.page_outputs[job.written + 1]],
                                              workspace_offset))
    /\ out' = [Call("render_paged", "Panic") EXCEPT !.strategy = job.strategy, !.after = since,
                                                    !.writes = Len(job.log)]
    /\ job' = JobIdle
    /\ UNCHANGED <<terminal_size, workspace_size, workspace_offset, last_buffer, dirty_regions,
                   force_full_refresh, buffer, term, since, plain_grid, library>>

\* The return of render_paged, stdout().flush()? failing: the engine has
\* taken the grid as shown.
PagedFlushFail ==
    LET done == render_commit(buffer)
    IN /\ job.pc = "write"
       /\ job.written = Len(job.page_outputs)
       /\ last_buffer' = done.last_buffer
       /\ dirty_regions' = done.dirty_regions
       /\ force_full_refresh' = done.force_full_refresh
       /\ out' = [Call("render_paged", "IoError") EXCEPT !.strategy = job.strategy,
                                                          !.after = since,
                                                          !.writes = Len(job.log)]
       /\ job' = JobIdle
       /\ UNCHANGED <<terminal_size, workspace_size, workspace_offset, buffer, term, since,
                      plain_grid, library>>

\* hide_cursor() and show_cursor(): one execute; the terminal model has no
\* cursor visibility, the command changes nothing it shows.
cursor_command(op, io) ==
    LET st == Exec(IoStart(term), io, "cursor", <<>>)
    IN /\ Caller
       /\ term' = st.term
       /\ out' = [Call(op, IF st.err THEN "IoError" ELSE "Ok") EXCEPT !.writes = st.writes]
       /\ UNCHANGED <<terminal_size, workspace_size, workspace_offset, last_buffer,
                      dirty_regions, force_full_refresh, buffer, since>>

HideCursor(io) == cursor_command("hide_cursor", io)

ShowCursor(io) == cursor_command("show_cursor", io)

\* update_terminal_size(new_size), the write named by io failing
UpdateTerminalSizeFail(new_size, io) ==
    /\ ~OffsetOverflows(new_size, Workspace(new_size))
    /\ update_terminal_size_returns(new_size, io)
    /\ out'.ret = "IoError"

\* The first write of a cursor command
IoCursor == [phase |-> "cursor", idx |-> 0]

\* The calls whose writes go to the sink
SinkOps == {"render", "render_paged", "update_terminal_size", "hide_cursor", "show_cursor"}

\* A step of a call in which a write to the sink fails
SinkFails ==
    \/ \E io \in {IoFlush} \cup {[phase |-> p, idx |-> 0] : p \in RenderPhases} : RenderFail(io)
    \/ \E io \in IoFailures({"clear", "border"}) : PagedStartFail(io)
    \/ PagedWritePanics
    \/ PagedFlushFail
    \/ \E io \in IoFailures({"clear"}) : UpdateTerminalSizeFail(terminal_size, io)
    \/ HideCursor(IoCursor)
    \/ ShowCursor(IoCursor)

NextSink ==
    \/ SinkFails
    \/ BufferSet(64, 0, with_fg(StyledChar_new("X"), "Red"))
           /\ Len(buffer.dirty_regions) < MaxGridDirty
    \/ ForceFullRefresh
    \/ Render(IoOk)
    \/ UpdateTerminalSize(terminal_size, IoOk)
    \/ HideCursor(IoOk)
    \/ ShowCursor(IoOk)
    \/ PagedStart
    \/ \E i \in 1..Len(job.pages) : PagedWorker(i)
    \/ PagedCollect
    \/ PagedWrite
    \/ PagedFinish

\* A terminal of 69 columns: the workspace is 65 wide, a page of 64 columns
\* and a page of one.
InitSink == InitAt(<<69, 24>>)

SpecSink == InitSink /\ [][NextSink]_vars

\* ------------------------------------------------------------- spec: rects
\* A program that asks a rect for a point, or two rects whether they meet.

RectCall(op, args, done) ==
    /\ out' = [GridCall(op, args) EXCEPT !.ret = IF done.panic THEN "Panic" ELSE "Ok"]
    /\ Caller
    /\ UNCHANGED <<terminal_size, workspace_size, workspace_offset, last_buffer,
                   dirty_regions, force_full_refresh, buffer, term, since>>

RectContains(rect, x, y, build) ==
    LET done == Rect_contains(rect, x, y, build)
    IN RectCall("Rect::contains",
                [rect |-> rect, x |-> x, y |-> y, build |-> build, value |-> done.value], done)

RectIntersects(a, b, build) ==
    LET done == Rect_intersects(a, b, build)
    IN RectCall("Rect::intersects",
                [rect |-> a, other |-> b, build |-> build, value |-> done.value], done)

\* Rects at the origin of the plane, with and without cells, and rects that
\* reach the last column a usize can name and past it
RectOrigins == {0, 1, 2}
RectExtents == {0, 1, 2}
NearRects ==
    {Rect_new(x, y, w, h) : x \in RectOrigins, y \in {0, 1}, w \in RectExtents, h \in {0, 1, 2}}
FarRects == {Rect_new(UsizeMax - 1, 0, w, 1) : w \in {1, 2, 3}}
Rects == NearRects \cup FarRects
RectPoints == {<<x, y>> : x \in {0, 1, 2, 3, UsizeMax - 1, UsizeMax}, y \in {0, 1, 2}}

InitRect == InitGrids(StyledFrameBuffer_new(0, 0), FrameBuffer_new(0, 0))

NextRect ==
    \/ /\ out.op = "other"
       /\ \E rect \in Rects, p \in RectPoints, build \in Builds :
              RectContains(rect, p[1], p[2], build)
    \/ /\ out.op = "other"
       /\ \E a \in Rects, b \in Rects, build \in Builds : RectIntersects(a, b, build)

SpecRect == InitRect /\ [][NextRect]_vars

\* ------------------------------------------------------------ spec: timer
\* A program that makes a FrameTimer and waits for some frames.

TimerCall(op, target_fps, timer) ==
    /\ out' = [GridCall(op, [fps |-> target_fps, timer |-> timer])
                  EXCEPT !.ret = IF timer.panic THEN "Panic" ELSE "Ok"]
    /\ Caller
    /\ UNCHANGED <<terminal_size, workspace_size, workspace_offset, last_buffer,
                   dirty_regions, force_full_refresh, buffer, term, since>>

FrameTimerNew(target_fps) ==
    /\ out.op = "other"
    /\ TimerCall("FrameTimer::new", target_fps, FrameTimer_new(target_fps))

WaitForNextFrame ==
    /\ out.op \in {"FrameTimer::new", "FrameTimer::wait_for_next_frame"}
    /\ out.ret = "Ok"
    /\ out.args.timer.frame_count < MaxFrames
    /\ TimerCall("FrameTimer::wait_for_next_frame", out.args.fps,
                 FrameTimer_wait_for_next_frame(out.args.timer))

InitTimer == InitGrids(StyledFrameBuffer_new(0, 0), FrameBuffer_new(0, 0))

NextTimer ==
    \/ \E target_fps \in 0..MaxFps : FrameTimerNew(target_fps)
    \/ WaitForNextFrame

SpecTimer == InitTimer /\ [][NextTimer]_vars

\* ------------------------------------------------------------- spec: pages
\* render_paged on workspaces of one page, of one full page, of two rows of
\* two pages and of a full page beside a part of one.  The caller writes the
\* first cell of the grid between renders.
PageTermSizes == {<<44, 24>>, <<68, 68>>, <<69, 69>>, <<127, 24>>}

InitPages == \E size \in PageTermSizes : InitAt(size)

NextPages ==
    \/ /\ Len(buffer.dirty_regions) < MaxGridDirty
       /\ BufferSet(0, 0, with_fg(StyledChar_new("X"), "Red"))
    \/ PagedStart
    \/ \E i \in 1..Len(job.pages) : PagedWorker(i)
    \/ PagedCollect
    \/ PagedWrite
    \/ PagedFinish

SpecPages == InitPages /\ [][NextPages]_vars

\* ------------------------------------------------- spec: strings as shown
\* Grids of two rows, filled with one cell, with cells of both rows written
\* over, and serialized.
ShownDims == {<<2, 2>>, <<3, 2>>}

ShownPositions == {<<0, 0>>, <<0, 1>>, <<1, 1>>}

InitShown ==
    \E d \in ShownDims : InitGrids(StyledFrameBuffer_new(d[1], d[2]), FrameBuffer_new(0, 0))

NextShown ==
    \/ \E c \in StringCells : ListRoom /\ GridClearWith(c)
    \/ \E p \in ShownPositions, c \in StringCells : ListRoom /\ GridSet(p[1], p[2], c)
    \/ GridToString
    \/ GridClearDirty

SpecShown == InitShown /\ [][NextShown]_vars

\* ------------------------------------------------------ spec: page strings
\* render_page_region_static on a grid used on its own: the string of one
\* region of the grid, for a workspace offset.
GridPageString(region, workspace_off) ==
    StyledCall("render_page_region_static",
               [region |-> region, workspace_off |-> workspace_off,
                value |-> render_page_region_static(buffer, region, workspace_off)],
               buffer)

PageStringDims == {<<3, 2>>, <<2, 1>>}

PageStringPositions == {<<0, 0>>, <<1, 0>>, <<1, 1>>}

\* The whole grid as one page (clipped by the grid or not), its second and
\* third columns, its second row.
PageStringRegions ==
    {Rect_new(0, 0, 3, 2), Rect_new(0, 0, 64, 64), Rect_new(1, 0, 2, 2), Rect_new(0, 1, 3, 1)}

PageStringOffsets == {<<0, 0>>, <<2, 1>>}

InitPageString ==
    \E d \in PageStringDims :
        InitGrids(StyledFrameBuffer_new(d[1], d[2]), FrameBuffer_new(0, 0))

NextPageString ==
    \/ \E c \in StringCells : ListRoom /\ GridClearWith(c)
    \/ \E p \in PageStringPositions, c \in StringCells : ListRoom /\ GridSet(p[1], p[2], c)
    \/ \E region \in PageStringRegions, workspace_off \in PageStringOffsets :
           GridPageString(region, workspace_off)
    \/ GridClearDirty

SpecPageString == InitPageString /\ [][NextPageString]_vars

\* ------------------------------------------------------ spec: block diffing
\* A program keeps a snapshot of its grid (a clone), writes cells, resizes
\* the grid and asks for the blocks that changed; until the first clone the
\* snapshot is the empty grid.
GridChangedRegions ==
    StyledCall("StyledFrameBuffer::get_changed_regions",
               [value |-> get_changed_regions(buffer, last_buffer)], buffer)

\* One block; two blocks a side, the second ones clipped to one cell; three
\* blocks in a row, the third clipped.
DiffDims == {<<8, 8>>, <<9, 9>>, <<17, 2>>}

\* The last cell of the first block, the first cell of the second and third
\* blocks of the first row, the one cell of the fourth block of 9 x 9.
DiffPositions == {<<7, 7>>, <<8, 0>>, <<16, 1>>, <<8, 8>>}

DiffCells == {with_fg(StyledChar_new("X"), "Red"), StyledChar_default}

InitDiff ==
    \E d \in DiffDims : InitGrids(StyledFrameBuffer_new(d[1], d[2]), FrameBuffer_new(0, 0))

NextDiff ==
    \/ \E p \in DiffPositions, c \in DiffCells : ListRoom /\ BufferSet(p[1], p[2], c)
    \/ \E d \in DiffDims : ListRoom /\ GridResize(d[1], d[2])
    \/ GridClone
    \/ GridChangedRegions
    \/ GridClearDirty

SpecDiff == InitDiff /\ [][NextDiff]_vars

\* ------------------------------------------------- spec: grids from the pools
\* One thread that holds a Plain Grid and a Styled Grid, writes them, gives
\* the Plain Grid back to its pool and takes new grids, from the pools or
\* not.  Each call holds the lock from its first step on a pool to its last,
\* so it is one step here; the buffers of the pools carry their elements.
\* threads[1].held is the buffer of the Plain Grid held (id 1) or NoBuffer.

PooledDims == {<<2, 1>>, <<1, 3>>, <<2, 2>>}

PooledPositions == {<<0, 0>>, <<1, 0>>, <<0, 2>>}

Holding(v) == [id |-> 1, capacity |-> v.capacity]

PooledStep(fb, held, op, args) ==
    /\ plain_grid' = fb
    /\ threads' = [threads EXCEPT ![1].held = held]
    /\ out' = GridCall(op, args)
    /\ UNCHANGED <<terminal_size, workspace_size, workspace_offset, last_buffer, dirty_regions,
                   force_full_refresh, buffer, term, since, job, image, STYLED_BUFFER_POOL>>

\* FrameBuffer::new; the grid held before is dropped.
PlainNew(width, height) ==
    /\ PooledStep(FrameBuffer_new(width, height),
                  Holding(Vec_from_elem(" ", width * height)),
                  "FrameBuffer::new", [width |-> width, height |-> height])
    /\ UNCHANGED BUFFER_POOL

\* FrameBuffer::new_pooled; recycled tells that the pool held a buffer, and
\* capacity is the capacity of the data of the grid.
PlainNewPooled(width, height) ==
    LET data == new_pooled_data(BUFFER_POOL.data, width * height, " ")
    IN /\ lock_free(BUFFER_POOL)
       /\ PooledStep([width |-> width, height |-> height, data |-> data.data],
                     Holding(data),
                     "FrameBuffer::new_pooled",
                     [width |-> width, height |-> height,
                      recycled |-> Len(BUFFER_POOL.data) > 0, capacity |-> data.capacity])
       /\ BUFFER_POOL' = [BUFFER_POOL EXCEPT !.data = popped(@)]

\* The caller pushes a character on the data of the grid (a public field):
\* the grid then holds one element more than width * height.
PlainDataPush(ch) ==
    /\ threads[1].held.id # 0
    /\ Len(plain_grid.data) = plain_grid.width * plain_grid.height
    /\ PooledStep([plain_grid EXCEPT !.data = Append(@, ch)],
                  [threads[1].held EXCEPT
                       !.capacity = IF Len(plain_grid.data) < @ THEN @
                                    ELSE Max(2 * @, Len(plain_grid.data) + 1)],
                  "Vec::push", [value |-> ch])
    /\ UNCHANGED BUFFER_POOL

\* FrameBuffer::release_to_pool: the grid is consumed.
PlainRelease ==
    /\ threads[1].held.id # 0
    /\ lock_free(BUFFER_POOL)
    /\ PooledStep(FrameBuffer_new(0, 0), NoBuffer, "FrameBuffer::release_to_pool", <<>>)
    /\ BUFFER_POOL' =
           [BUFFER_POOL EXCEPT
                !.data = release_to_pool([data |-> plain_grid.data,
                                          capacity |-> threads[1].held.capacity], @)]

StyledFrameBuffer_new_pooled(pool_data, width, height) ==
    [width |-> width, height |-> height,
     data |-> new_pooled_data(pool_data, width * height, StyledChar_default).data,
     dirty_regions |-> <<>>]

\* StyledFrameBuffer::new_pooled
StyledNewPooled(width, height) ==
    /\ lock_free(STYLED_BUFFER_POOL)
    /\ buffer' = StyledFrameBuffer_new_pooled(STYLED_BUFFER_POOL.data, width, height)
    /\ STYLED_BUFFER_POOL' = [STYLED_BUFFER_POOL EXCEPT !.data = popped(@)]
    /\ out' = GridCall("StyledFrameBuffer::new_pooled",
                       [width |-> width, height |-> height,
                        recycled |-> Len(STYLED_BUFFER_POOL.data) > 0])
    /\ UNCHANGED <<terminal_size, workspace_size, workspace_offset, last_buffer, dirty_regions,
                   force_full_refresh, term, since, job, plain_grid, image, BUFFER_POOL,
                   threads>>

InitPooled == InitGrids(StyledFrameBuffer_new(0, 0), FrameBuffer_new(0, 0))

NextPooled ==
    \/ \E d \in PooledDims : Len(BUFFER_POOL.data) < MaxPooled /\ PlainNew(d[1], d[2])
    \/ \E d \in PooledDims : PlainNewPooled(d[1], d[2])
    \/ \E p \in PooledPositions : threads[1].held.id # 0 /\ PlainSet(p[1], p[2], "X")
    \/ PlainDataPush("X")
    \/ PlainRelease
    \/ \E d \in PooledDims : StyledNewPooled(d[1], d[2])
    \/ ListRoom /\ GridSet(0, 0, with_fg(StyledChar_new("X"), "Red"))

SpecPooled == InitPooled /\ [][NextPooled]_vars

\* ------------------------------------------------------------------ claims

RenderOps == {"render", "render_paged"}

\* The terminal shows every cell of the grid at its workspace position.
Shows(t, buf) ==
    \A x \in 0..(buf.width - 1), y \in 0..(buf.height - 1) :
        TermCell(t, x + workspace_offset[1], y + workspace_offset[2])
            = ShownCell(None, None, StyledFrameBuffer_get(buf, x, y))

\* C1: a render or render_paged call returns the size-mismatch error exactly
\* when the grid's width or height differs from the workspace size, and then
\* it writes nothing to the terminal and leaves previous_frame, the dirty
\* queue and the force_full flag as they were.
C1_SizeMismatch ==
    [][out'.op \in RenderOps =>
         IF <<buffer.width, buffer.height>> # workspace_size
         THEN /\ out'.ret = "SizeMismatch"
              /\ out'.writes = 0
              /\ term' = term
              /\ last_buffer' = last_buffer
              /\ dirty_regions' = dirty_regions
              /\ force_full_refresh' = force_full_refresh
         ELSE out'.ret # "SizeMismatch"]_vars

\* C1 happens: a render returned the mismatch with rects queued and the
\* force_full flag clear.
C1_Witness ==
    /\ out.op = "render" /\ out.ret = "SizeMismatch"
    /\ dirty_regions # <<>> /\ ~force_full_refresh

\* C2: after a successful render that follows a successful render (no resize,
\* no failure between them) the terminal shows every workspace cell of the
\* grid just rendered, whatever rects the caller queued.
C2_NoStaleCells ==
    [][(out'.op = "render" /\ out'.ret = "Ok" /\ since \in {"Full", "Incremental"})
         => Shows(term', buffer)]_vars

\* C3: when render or render_paged returns success, previous_frame is the
\* passed grid (dimensions and every cell), the dirty queue is empty and the
\* force_full flag is false.
C3_Commit ==
    [][(out'.op \in RenderOps /\ out'.ret = "Ok") =>
         /\ last_buffer'.width = buffer.width
         /\ last_buffer'.height = buffer.height
         /\ last_buffer'.data = buffer.data
         /\ dirty_regions' = <<>>
         /\ force_full_refresh' = FALSE]_vars

\* C3 happens: an incremental render of a grid with a written cell, with
\* rects queued, returned success.
C3_Witness ==
    /\ out.op = "render" /\ out.ret = "Ok" /\ out.regions # <<>>
    /\ StyledFrameBuffer_get(last_buffer, 6, 1) # StyledChar_default
    /\ dirty_regions = <<>>

\* C4: a render that returns an error leaves previous_frame as it was.
C4_FailedRenderKeepsFrame ==
    [][(out'.op \in RenderOps /\ out'.ret # "Ok") => last_buffer' = last_buffer]_vars

\* C5: the first successful render after update_terminal_size uses the Full
\* strategy.
C5_FullAfterResize ==
    [][(out'.op \in RenderOps /\ out'.ret = "Ok" /\ since = "update_terminal_size")
         => out'.strategy = "Full"]_vars

\* C6: a successful render uses the Full strategy exactly when the force_full
\* flag is set; the first render after construction or force_full_refresh is
\* Full; a render that directly follows a successful render is Incremental.
C6_Strategy ==
    [][(out'.op \in RenderOps /\ out'.ret = "Ok") =>
         /\ out'.strategy = (IF force_full_refresh THEN "Full" ELSE "Incremental")
         /\ since \in {"new", "force_full_refresh"} => out'.strategy = "Full"
         /\ (out.op \in RenderOps /\ out.ret = "Ok") => out'.strategy = "Incremental"]_vars

\* C6 happens: an Incremental render followed a successful render.
C6_Witness ==
    /\ out.op = "render" /\ out.ret = "Ok" /\ out.strategy = "Incremental"
    /\ out.after \in {"Full", "Incremental"}

\* C7: the render that follows a Full render, of a grid whose cells are those
\* of the grid rendered then, is Incremental and rewrites no row: no write
\* at all, and the terminal stays as it is, whatever rects are queued.
C7_NoRewrite ==
    [][(out'.op = "render" /\ out'.ret = "Ok" /\ since = "Full"
          /\ buffer.data = last_buffer.data) =>
         /\ out'.strategy = "Incremental"
         /\ out'.rows = 0
         /\ out'.writes = 0
         /\ term' = term]_vars

\* C7 happens: an Incremental render after a Full one went through two queued
\* rects and rewrote no row.
C7_Witness ==
    /\ out.op = "render" /\ out.ret = "Ok" /\ out.after = "Full"
    /\ out.strategy = "Incremental" /\ Len(out.regions) = 2 /\ out.rows = 0

RECURSIVE PageStrings(_)
PageStrings(n) ==
    IF n = 0 THEN <<>>
    ELSE PageStrings(n - 1) \o render_page_region_static(buffer, job.pages[n], workspace_offset)

\* C9: the page bytes a paged render has written are the strings of the
\* first pages of its list, whole and in list order, and the list is in
\* row-major page order, whatever the order the workers finished in.
C9_PageOrder ==
    /\ job.stream = PageStrings(job.written)
    /\ \A k \in 1..(Len(job.pages) - 1) :
           \/ job.pages[k].y < job.pages[k + 1].y
           \/ job.pages[k].y = job.pages[k + 1].y /\ job.pages[k].x < job.pages[k + 1].x

\* C9 happens: the four pages are written, the workers having finished in
\* the reverse of the page order.
C9_Witness ==
    /\ job.pc = "write" /\ job.written = 4
    /\ job.finished = <<4, 3, 2, 1>>

\* The number of page strings computed before event k of the call
ComputedBefore(k) ==
    Len(SelectSeq(SubSeq(job.log, 1, k), LAMBDA e : e.ev = "computed"))

\* C10 as stated: every write of a paged render, the clear-screen and the
\* border included, comes after the computation of all its page strings.
C10_FanInFirst ==
    \A k \in 1..Len(job.log) :
        job.log[k].ev = "write" => ComputedBefore(k) = Len(job.pages)

\* C10 amended: every write of page content comes after the computation of
\* all the page strings of the call, and so does every write of the
\* incremental-paged path; the clear-screen and the border of the full-paged
\* path are written before any page string is computed.
C10_PagesAfterFanIn ==
    \A k \in 1..Len(job.log) :
        job.log[k].ev = "write" =>
            IF job.log[k].what = "page" \/ job.strategy = "Incremental"
            THEN ComputedBefore(k) = Len(job.pages)
            ELSE ComputedBefore(k) = 0

\* C10 happens: a full-paged render has written the clear-screen, the border
\* and all its pages.
C10_Witness ==
    /\ job.pc = "write" /\ job.strategy = "Full"
    /\ job.written = Len(job.pages) /\ job.written > 1

\* One of the four sampled cells of the page (top-left corner, center,
\* bottom-right corner, quarter-point) differs between the grid and
\* previous_frame.
SampleDiffers(page) ==
    \E p \in {<<0, 0>>, <<page.width \div 2, page.height \div 2>>,
              <<page.width - 1, page.height - 1>>,
              <<page.width \div 4, page.height \div 4>>} :
        LET i == (page.y + p[2]) * buffer.width + page.x + p[1] + 1
        IN buffer.data[i] # last_buffer.data[i]

\* The numbers of the pages a finished paged render has written
PagesWritten(j) ==
    LET writes == SelectSeq(j.log, LAMBDA e : e.ev = "write" /\ e.what = "page")
    IN [k \in 1..Len(writes) |-> writes[k].page]

\* C11: an incremental paged render takes for redrawing exactly the pages of
\* the grid one of whose sampled cells differs between the grid and
\* previous_frame, in page order; it writes every page it took and no other,
\* and nothing at all when it took none.
C11_SampledPages ==
    [][/\ (/\ job.pc = "idle" /\ ~force_full_refresh
            /\ <<buffer.width, buffer.height>> = workspace_size
            /\ (job'.pc = "compute" \/ out'.op = "render_paged")) =>
              LET drawn == IF job'.pc = "compute" THEN job'.pages ELSE <<>>
                  pages == page_rects(buffer)
              IN /\ \A k \in 1..Len(pages) :
                        (\E i \in 1..Len(drawn) : drawn[i] = pages[k]) <=> SampleDiffers(pages[k])
                 /\ Len(drawn) <= Len(pages)
                 /\ drawn = <<>> => term' = term
       /\ (job.pc = "write" /\ job'.pc = "idle" /\ job.strategy = "Incremental") =>
              PagesWritten(job) = [k \in 1..Len(job.pages) |-> k]]_vars

\* C11 happens: an incremental paged render has written the one page it
\* took, the second, while a cell of the first page that is not sampled
\* differs from previous_frame.
C11_Witness ==
    /\ job.pc = "write" /\ job.strategy = "Incremental"
    /\ job.pages = <<Rect_new(64, 0, 1, 64)>> /\ job.written = 1
    /\ StyledFrameBuffer_get(buffer, 1, 0) # StyledFrameBuffer_get(last_buffer, 1, 0)

\* The position of the call's arguments lies inside the grid.
Inside(fb, args) == args.x < fb.width /\ args.y < fb.height

\* Every cell but the one at the call's position is as before the call, and
\* so are the dimensions.
OthersKept(before, after, args) ==
    /\ after.width = before.width /\ after.height = before.height
    /\ Len(after.data) = Len(before.data)
    /\ \A i \in 1..Len(before.data) :
           i # args.y * before.width + args.x + 1 => after.data[i] = before.data[i]

\* C12: a get outside the grid returns the default cell (a space on the Plain
\* Grid, the space without colours on the Styled Grid); a set outside the
\* grid returns normally and leaves the grid as it was, cells and dirty list.
C12_OutOfBounds ==
    [][/\ (out'.op = "StyledFrameBuffer::get" /\ ~Inside(buffer, out'.args)) =>
              out'.args.value = [ch |-> " ", fg_color |-> None, bg_color |-> None]
       /\ (out'.op = "StyledFrameBuffer::set" /\ ~Inside(buffer, out'.args)) =>
              /\ out'.ret = "Ok"
              /\ buffer'.data = buffer.data
              /\ buffer'.dirty_regions = buffer.dirty_regions
       /\ (out'.op = "FrameBuffer::get" /\ ~Inside(plain_grid, out'.args)) =>
              out'.args.value = " "
       /\ (out'.op = "FrameBuffer::set" /\ ~Inside(plain_grid, out'.args)) =>
              out'.ret = "Ok" /\ plain_grid'.data = plain_grid.data]_vars

\* C12 happens: a coloured cell was set one column past the right edge of a
\* grid that holds a coloured cell.
C12_Witness ==
    /\ out.op = "StyledFrameBuffer::set" /\ buffer.width = 2
    /\ out.args.x = buffer.width /\ out.args.y = 0
    /\ out.args.value # StyledChar_default
    /\ buffer.data[2] # StyledChar_default

\* C13: a set inside the grid changes no other cell, and the get of the same
\* position that follows it returns the value set, on both grids.
C13_SetThenGet ==
    [][/\ (out'.op = "StyledFrameBuffer::set" /\ Inside(buffer, out'.args)) =>
              OthersKept(buffer, buffer', out'.args)
       /\ (/\ out.op = "StyledFrameBuffer::set" /\ out'.op = "StyledFrameBuffer::get"
            /\ Inside(buffer, out.args)
            /\ out'.args.x = out.args.x /\ out'.args.y = out.args.y) =>
              out'.args.value = out.args.value
       /\ (out'.op = "FrameBuffer::set" /\ Inside(plain_grid, out'.args)) =>
              OthersKept(plain_grid, plain_grid', out'.args)
       /\ (/\ out.op = "FrameBuffer::set" /\ out'.op = "FrameBuffer::get"
            /\ Inside(plain_grid, out.args)
            /\ out'.args.x = out.args.x /\ out'.args.y = out.args.y) =>
              out'.args.value = out.args.value]_vars

\* C13 happens: the get of (0,1) on a Plain Grid returned the X held there,
\* the cell at (1,0) holding a space.
C13_Witness ==
    /\ out.op = "FrameBuffer::get" /\ out.args.x = 0 /\ out.args.y = 1
    /\ out.args.value = "X"
    /\ plain_grid.data[2] = " "

\* C14 as stated: two sets in a row of one value to one cell of the Styled
\* Grid append exactly one dirty entry between them, whatever the value.
C14_OneEntry ==
    [][(/\ out.op = "StyledFrameBuffer::set" /\ out'.op = "StyledFrameBuffer::set"
        /\ Inside(buffer, out.args)
        /\ out'.args.x = out.args.x /\ out'.args.y = out.args.y
        /\ out'.args.value = out.args.value) =>
          Len(buffer'.dirty_regions) = out.args.entries + 1]_vars

\* C14 amended: of two sets in a row of one value to one cell of the Styled
\* Grid the second changes nothing, and the two together append one dirty
\* entry when the value differs from the cell before the first set, and none
\* when it is the value the cell already held.
C14_OneEntryIfChanged ==
    [][(/\ out.op = "StyledFrameBuffer::set" /\ out'.op = "StyledFrameBuffer::set"
        /\ Inside(buffer, out.args)
        /\ out'.args.x = out.args.x /\ out'.args.y = out.args.y
        /\ out'.args.value = out.args.value) =>
          /\ buffer' = buffer
          /\ Len(buffer'.dirty_regions) =
                 out.args.entries + (IF out.args.was # out.args.value THEN 1 ELSE 0)]_vars

\* C14 happens: the second of two sets of a coloured X to (1,1) returned, the
\* list holding the one entry of the first.
C14_Witness ==
    /\ out.op = "StyledFrameBuffer::set" /\ out.args.x = 1 /\ out.args.y = 1
    /\ out.args.value # StyledChar_default /\ out.args.was = out.args.value
    /\ out.args.again /\ out.args.entries = 1
    /\ buffer.dirty_regions = <<Rect_new(1, 1, 1, 1)>>

\* C17: a set inside the Styled Grid of a value that differs from the cell
\* appends the one rect (x, y, 1, 1) to the dirty list; a set of the value the
\* cell holds leaves storage and list as they were; clear and clear_with
\* append the one rect of the whole grid, also when no cell changes.
C17_DirtRecording ==
    [][/\ (out'.op = "StyledFrameBuffer::set" /\ Inside(buffer, out'.args)) =>
              IF buffer.data[out'.args.y * buffer.width + out'.args.x + 1] # out'.args.value
              THEN buffer'.dirty_regions =
                       Append(buffer.dirty_regions, [x |-> out'.args.x, y |-> out'.args.y,
                                                     width |-> 1, height |-> 1])
              ELSE buffer'.data = buffer.data /\ buffer'.dirty_regions = buffer.dirty_regions
       /\ out'.op \in {"StyledFrameBuffer::clear", "StyledFrameBuffer::clear_with"} =>
              buffer'.dirty_regions =
                  Append(buffer.dirty_regions, [x |-> 0, y |-> 0, width |-> buffer.width,
                                                height |-> buffer.height])]_vars

\* C17 happens: a clear of a blank grid appended a second whole-grid rect.
C17_Witness ==
    /\ out.op = "StyledFrameBuffer::clear"
    /\ buffer.dirty_regions = <<Rect_new(0, 0, 2, 2), Rect_new(0, 0, 2, 2)>>

\* C15: every resize appends the rect of the whole new grid to the
\* dirty list, also a resize to the dimensions the grid has.
C15_ResizeAlwaysMarks ==
    [][out'.op = "StyledFrameBuffer::resize" =>
         buffer'.dirty_regions =
             Append(buffer.dirty_regions, [x |-> 0, y |-> 0, width |-> out'.args.width,
                                           height |-> out'.args.height])]_vars

\* C16: after resize(w, h) the grid is w wide and h high and holds w * h
\* cells; get returns the cell of before the resize where x and y are below
\* the smaller of the old and the new extent, and the default cell elsewhere.
C16_ResizeKeepsOverlap ==
    [][out'.op = "StyledFrameBuffer::resize" =>
         LET w == out'.args.width
             h == out'.args.height
         IN /\ buffer'.width = w /\ buffer'.height = h
            /\ Len(buffer'.data) = w * h
            /\ \A x \in 0..(w - 1), y \in 0..(h - 1) :
                   StyledFrameBuffer_get(buffer', x, y) =
                       IF x < Min(buffer.width, w) /\ y < Min(buffer.height, h)
                       THEN StyledFrameBuffer_get(buffer, x, y)
                       ELSE [ch |-> " ", fg_color |-> None, bg_color |-> None]]_vars

\* C16 happens: the grid A, B, C of one row was resized to 5 columns: B is
\* at x = 1 and the default cell at x = 4.
C16_Witness ==
    /\ out.op = "StyledFrameBuffer::resize"
    /\ out.args.old_width = 3 /\ out.args.old_height = 1
    /\ buffer.width = 5 /\ buffer.height = 1
    /\ StyledFrameBuffer_get(buffer, 1, 0).ch = "B"
    /\ StyledFrameBuffer_get(buffer, 2, 0).ch = "C"
    /\ StyledFrameBuffer_get(buffer, 4, 0) = StyledChar_default

\* The destination after a blit with arguments a: the cell at offset (ox, oy)
\* of the rectangle is the source cell where that lies inside the source,
\* every other cell is as before.
Blitted(before, after, src, a) ==
    /\ after.width = before.width /\ after.height = before.height
    /\ Len(after.data) = Len(before.data)
    /\ \A x \in 0..(before.width - 1), y \in 0..(before.height - 1) :
           LET ox == x - a.dst_x
               oy == y - a.dst_y
               i == y * before.width + x + 1
           IN after.data[i] =
                  IF /\ ox \in 0..(a.width - 1) /\ oy \in 0..(a.height - 1)
                     /\ a.src_x + ox < src.width /\ a.src_y + oy < src.height
                  THEN src.data[(a.src_y + oy) * src.width + a.src_x + ox + 1]
                  ELSE before.data[i]

\* C19: blit returns normally for every rectangle and position, and leaves
\* in the destination the source cell at every offset of the rectangle whose
\* source cell lies inside the source and whose destination cell lies inside
\* the destination, and every other destination cell as it was.
C19_Blit ==
    [][/\ out'.op = "StyledFrameBuffer::blit" =>
              out'.ret = "Ok" /\ Blitted(buffer, buffer', SrcStyled, out'.args)
       /\ out'.op = "FrameBuffer::blit" =>
              out'.ret = "Ok" /\ Blitted(plain_grid, plain_grid', SrcPlain, out'.args)]_vars

\* The list s begins the list t.
IsPrefix(s, t) == Len(s) <= Len(t) /\ SubSeq(t, 1, Len(s)) = s

\* C18: whatever is called, the dirty list of the Styled Grid before the call
\* begins the list after it, but for clear_dirty, which empties it; a render
\* of the engine leaves the list as it was.
C18_AppendOnly ==
    [][/\ IF out'.op = "StyledFrameBuffer::clear_dirty"
          THEN buffer'.dirty_regions = <<>>
          ELSE IsPrefix(buffer.dirty_regions, buffer'.dirty_regions)
       /\ (out'.op \in RenderOps \/ job'.pc # "idle") =>
              buffer'.dirty_regions = buffer.dirty_regions]_vars

\* C18 happens: a draw_border appended the rects of its cells to a list that
\* held the rect of a resize.
C18_Witness ==
    /\ out.op = "StyledFrameBuffer::draw_border"
    /\ Len(buffer.dirty_regions) > 4
    /\ buffer.dirty_regions[1] = Rect_new(0, 0, 3, 2)

\* Every cell of the grid has the one foreground colour and the one
\* background colour, both set.
Uniform(fb) ==
    /\ Len(fb.data) > 0
    /\ fb.data[1].fg_color # None /\ fb.data[1].bg_color # None
    /\ \A i \in 1..Len(fb.data) :
           /\ fb.data[i].fg_color = fb.data[1].fg_color
           /\ fb.data[i].bg_color = fb.data[1].bg_color

\* The numbers of foreground and of background colour escapes of a string
FgEscapes(str) == Len(SelectSeq(str, LAMBDA tok : tok[1] = "SGR" /\ tok[2] \in 30..37 \cup {90}))
BgEscapes(str) == Len(SelectSeq(str, LAMBDA tok : tok[1] = "SGR" /\ tok[2] \in 40..47 \cup {100}))

\* C20: the to_string of a grid whose cells all have one foreground and one
\* background colour holds exactly one foreground escape and exactly one
\* background escape, whatever the width and the height.
C20_OneEscapeEach ==
    [][(out'.op = "StyledFrameBuffer::to_string" /\ Uniform(buffer)) =>
         /\ FgEscapes(out'.args.value) = 1
         /\ BgEscapes(out'.args.value) = 1]_vars

\* The rows of fb with a cell that differs from the same cell of last
ChangedRows(fb, last) ==
    {y \in 0..(fb.height - 1) :
        \E x \in 0..(fb.width - 1) :
            StyledFrameBuffer_get(fb, x, y) # StyledFrameBuffer_get(last, x, y)}

\* The positions of the tokens of one kind in a string
Positions(str, kind) == {i \in 1..Len(str) : str[i][1] = kind}

\* C21: render_partial against a snapshot of the same size writes, in
\* ascending row order, one rewrite for each row with a cell that differs
\* from the snapshot and nothing for the other rows: the cursor is moved to
\* the start of the row, all the cells of the row follow, then CSI 0 K.  For
\* equal grids the string is empty.
C21_PartialRows ==
    [][(/\ out'.op = "StyledFrameBuffer::render_partial"
        /\ buffer.width = last_buffer.width
        /\ buffer.height = last_buffer.height) =>
         LET str == out'.args.value
             cups == Positions(str, "CUP")
             rows == ChangedRows(buffer, last_buffer)
         IN /\ Cardinality(cups) = Cardinality(rows)
            /\ (rows = {} => str = <<>>)
            /\ (str # <<>> => 1 \in cups)
            /\ \A i, j \in cups : i < j => str[i][2] < str[j][2]
            /\ \A i \in cups :
                 LET y == str[i][2] - 1
                     later == {j \in cups : j > i}
                     end == IF later = {} THEN Len(str) + 1
                            ELSE CHOOSE j \in later : \A k \in later : j <= k
                     row == SubSeq(str, i + 1, end - 1)
                     clears == Positions(row, "EL")
                 IN /\ y \in rows
                    /\ str[i][3] = 1
                    /\ SelectSeq(row, LAMBDA tok : tok[1] = "CH")
                         = [x \in 1..buffer.width |->
                              <<"CH", StyledFrameBuffer_get(buffer, x - 1, y).ch>>]
                    /\ Cardinality(clears) = 1
                    /\ \A e \in clears : row[e] = <<"EL", 0>>
                    /\ \A e \in clears : \A c \in Positions(row, "CH") : c < e]_vars

\* A grid of two rows was serialized against its snapshot: the first row has
\* a changed cell and a cell that is as in the snapshot, the second row is
\* as in the snapshot.
C21_Witness ==
    /\ out.op = "StyledFrameBuffer::render_partial"
    /\ buffer.width = 2 /\ buffer.height = 2
    /\ last_buffer.width = 2 /\ last_buffer.height = 2
    /\ ChangedRows(buffer, last_buffer) = {0}
    /\ StyledFrameBuffer_get(buffer, 1, 0) = StyledFrameBuffer_get(last_buffer, 1, 0)
    /\ Len(SelectSeq(out.args.value, LAMBDA tok : tok[1] = "CH")) = 2

BrailleOps == {"image_to_braille_fb", "image_to_braille_fb_with_threshold"}

\* The bit of the Unicode Braille pattern for the dot in column dx and row
\* dy of a cell: dots 1 2 3 run down the left column, 4 5 6 down the right
\* one, and dots 7 8 are the bottom row.
UnicodeBit(dx, dy) == IF dy = 3 THEN 6 + dx ELSE dx * 3 + dy

\* Bit b of the code point code is set
BitSet(code, b) == (code \div (2 ^ b)) % 2 = 1

\* Pixel (px, py) is inside the image and over the threshold
Bright(img, px, py, threshold) ==
    /\ px < img.width /\ py < img.height
    /\ img.data[py * img.width + px + 1] > threshold

\* C22: every cell of a converted image raises exactly the dots of its
\* block's pixels over the threshold under the Unicode Braille layout:
\* pixel (column, row) sets bit (0,0)->0, (0,1)->1, (0,2)->2, (1,0)->3,
\* (1,1)->4, (1,2)->5, (0,3)->6, (1,3)->7 of U+2800.
C22_UnicodeDots ==
    [][(out'.op \in BrailleOps /\ out'.ret = "Ok") =>
         LET img == out'.args.img
             fb == out'.args.grid
         IN \A bx \in 0..(fb.width - 1), by \in 0..(fb.height - 1) :
              \A dx \in 0..1, dy \in 0..3 :
                  BitSet(FrameBuffer_get(fb, bx, by), UnicodeBit(dx, dy))
                    <=> Bright(img, bx * 2 + dx, by * 4 + dy, out'.args.threshold)]_vars

\* The number of set bits among the low eight bits of a code point
DotCount(code) == Cardinality({b \in 0..7 : BitSet(code, b)})

\* The pixels of the block of cell (bx, by) that are inside the image and
\* over the threshold
BrightPixels(img, bx, by, threshold) ==
    {d \in (0..1) \X (0..3) : Bright(img, bx * 2 + d[1], by * 4 + d[2], threshold)}

\* C23: every cell of a converted image is a code point of U+2800..U+28FF
\* with as many set bits as its block has pixels that are inside the scaled
\* image and strictly over the threshold (128 where none is given): a pixel
\* at the threshold or outside the image raises no dot, and a black image
\* gives U+2800 in every cell.
C23_DotsOverThreshold ==
    [][(out'.op \in BrailleOps /\ out'.ret = "Ok") =>
         LET img == out'.args.img
             fb == out'.args.grid
         IN /\ out'.op = "image_to_braille_fb" => out'.args.threshold = 128
            /\ Len(fb.data) = fb.width * fb.height
            /\ \A bx \in 0..(fb.width - 1), by \in 0..(fb.height - 1) :
                 LET code == FrameBuffer_get(fb, bx, by)
                 IN /\ code \in 10240..10495
                    /\ DotCount(code)
                         = Cardinality(BrightPixels(img, bx, by, out'.args.threshold))
            /\ (\A i \in 1..Len(img.data) : img.data[i] = 0) =>
                 \A k \in 1..Len(fb.data) : fb.data[k] = 10240]_vars

\* A 3 x 5 image with pixels at the threshold and pixels over it was
\* converted: its right-hand and lower cells lie partly outside the image,
\* and the last cell has one pixel inside it.
C23_Witness ==
    /\ out.op = "image_to_braille_fb_with_threshold" /\ out.ret = "Ok"
    /\ out.args.threshold = 128
    /\ out.args.img.width = 3 /\ out.args.img.height = 5
    /\ \E i \in 1..15 : out.args.img.data[i] = 128
    /\ out.args.grid.width = 2 /\ out.args.grid.height = 2
    /\ DotCount(out.args.grid.data[1]) = 4
    /\ DotCount(out.args.grid.data[4]) = 1

\* One side of a w x h image after the uniform downscale by
\* min(2W / w, 4H / h, 1): the largest whole number of pixels not over the
\* scaled side, and at least 1.
Downscaled(side, w, h, W, H) ==
    LET fits == {n \in 0..side : n * w <= side * 2 * W /\ n * h <= side * 4 * H}
    IN Max(CHOOSE n \in fits : \A m \in fits : m <= n, 1)

\* C24: a conversion to at most W x H cells, W >= 1 and H >= 1, always
\* yields a grid of width ceil(scaled_w / 2) and height ceil(scaled_h / 4),
\* (scaled_w, scaled_h) being the size of the image after the uniform
\* downscale by min(2W / src_w, 4H / src_h, 1), each side at least 1; the
\* grid is never wider than W cells nor higher than H cells.
C24_GridSize ==
    [][(out'.op \in BrailleOps /\ out'.args.max_width >= 1 /\ out'.args.max_height >= 1) =>
         LET W == out'.args.max_width
             H == out'.args.max_height
             scaled_w == Downscaled(image.width, image.width, image.height, W, H)
             scaled_h == Downscaled(image.height, image.width, image.height, W, H)
         IN /\ out'.ret = "Ok"
            /\ out'.args.grid.width = (scaled_w + 1) \div 2
            /\ out'.args.grid.height = (scaled_h + 3) \div 4
            /\ out'.args.grid.width <= W
            /\ out'.args.grid.height <= H]_vars

\* C25: a conversion with max_width = 0 or max_height = 0 fails with the
\* invalid-dimensions condition, for every image and threshold, and makes
\* no grid; with both at least 1 it never fails.
C25_InvalidDimensions ==
    [][out'.op \in BrailleOps =>
         IF out'.args.max_width = 0 \/ out'.args.max_height = 0
         THEN out'.ret = "InvalidDimensions" /\ "grid" \notin DOMAIN out'.args
         ELSE out'.ret = "Ok" /\ "grid" \in DOMAIN out'.args]_vars

\* C26: the coordinate mappings are inverse to each other: for every
\* workspace cell (x, y), terminal_to_workspace of the position
\* workspace_to_terminal(x, y) is (x, y); and terminal_to_workspace(tx, ty)
\* is "outside" exactly when tx < offset_x, ty < offset_y,
\* tx >= offset_x + workspace_w or ty >= offset_y + workspace_h, and
\* (tx - offset_x, ty - offset_y) otherwise.
C26_InversePair ==
    [][out'.op = "terminal_to_workspace" =>
         LET tx == out'.args.x
             ty == out'.args.y
         IN /\ (/\ out.op = "workspace_to_terminal"
                /\ out.args.x < workspace_size[1] /\ out.args.y < workspace_size[2]
                /\ <<tx, ty>> = out.args.value) =>
                  out'.args.value = <<"Some", out.args.x, out.args.y>>
            /\ out'.args.value =
                 IF \/ tx < workspace_offset[1] \/ ty < workspace_offset[2]
                    \/ tx >= workspace_offset[1] + workspace_size[1]
                    \/ ty >= workspace_offset[2] + workspace_size[2]
                 THEN <<"None">>
                 ELSE <<"Some", tx - workspace_offset[1], ty - workspace_offset[2]>>]_vars

\* C27: whatever terminal size the constructor sees or update_terminal_size
\* is passed, no subtraction underflows, the workspace is not larger than
\* the terminal in either axis, and it is centred:
\* offset = ((w - workspace_w) / 2, (h - workspace_h) / 2), so that offset
\* plus workspace size is within the terminal size.
C27_Centred ==
    /\ out.op \in {"new", "update_terminal_size"} => out.ret # "Panic"
    /\ Engine =>
         /\ workspace_size[1] <= terminal_size[1]
         /\ workspace_size[2] <= terminal_size[2]
         /\ workspace_offset[1] = (terminal_size[1] - workspace_size[1]) \div 2
         /\ workspace_offset[2] = (terminal_size[2] - workspace_size[2]) \div 2
         /\ workspace_offset[1] + workspace_size[1] <= terminal_size[1]
         /\ workspace_offset[2] + workspace_size[2] <= terminal_size[2]

BoxChars == {"box_dr", "box_h", "box_dl", "box_v", "box_ur", "box_ul"}

\* Position (x, y) is on the frame one cell around the workspace.
OnFrame(x, y) ==
    /\ x + 1 >= workspace_offset[1] /\ x <= workspace_offset[1] + workspace_size[1]
    /\ y + 1 >= workspace_offset[2] /\ y <= workspace_offset[2] + workspace_size[2]
    /\ \/ x < workspace_offset[1] \/ x >= workspace_offset[1] + workspace_size[1]
       \/ y < workspace_offset[2] \/ y >= workspace_offset[2] + workspace_size[2]

\* C28: the border of the Full strategy is clipped to the terminal: no border
\* character is put on a workspace cell or off the frame around the
\* workspace, and the segment of a side is left out where the workspace
\* touches that edge of the terminal.  The screen having been cleared, the
\* border characters the terminal shows once the border is drawn are on the
\* frame.
C28_BorderClipped ==
    (/\ out.op = "render" /\ out.strategy = "Full"
     /\ out.ret = "Ok" \/ out.writes > 2) =>
        \A x \in 0..(terminal_size[1] - 1), y \in 0..(terminal_size[2] - 1) :
            TermCell(term, x, y).ch \in BoxChars => OnFrame(x, y)

\* ---- C29 ----
\* Whatever the interleaving of the threads' new_pooled and release_to_pool
\* calls, each pool holds at most 16 buffers in every reachable state, and a
\* buffer taken from a pool belongs to one caller only: no two threads hold
\* the same buffer, and a buffer that a thread holds is in no pool.
InPool(pool, id) == \E i \in 1..Len(pool.data) : pool.data[i].id = id

C29_PoolBounded ==
    /\ Len(BUFFER_POOL.data) <= PoolCap
    /\ Len(STYLED_BUFFER_POOL.data) <= PoolCap
    /\ \A t \in Threads :
           threads[t].held.id # 0 =>
               /\ \A u \in Threads \ {t} : threads[u].held.id # threads[t].held.id
               /\ ~InPool(BUFFER_POOL, threads[t].held.id)
               /\ ~InPool(STYLED_BUFFER_POOL, threads[t].held.id)

\* One thread has pushed the sixteenth buffer and still holds the lock that
\* another thread waits for with a buffer of its own to release.
C29_Witness ==
    \E t \in Threads, u \in Threads :
        /\ t # u
        /\ BUFFER_POOL.owner = t
        /\ threads[t].pc = "release_to_pool:unlock"
        /\ Len(BUFFER_POOL.data) = PoolCap
        /\ threads[u].pc = "release_to_pool:lock"
        /\ threads[u].held.id # 0

\* ---- C30 ----
\* One mebibyte, in bytes
MiB == 1024 * 1024

\* What a step of the threads does to the pool of the Plain Grid, cap being
\* the most elements of a buffer within the cap: a release goes on to the lock exactly with a
\* buffer within the cap and otherwise drops it; a buffer is pushed only by
\* the thread that releases it, within the cap, on fewer than 16 buffers;
\* a release that finds 16 buffers leaves the pool as it is and drops the
\* buffer; and the buffers of the pool are within the cap.
ReleaseKeeps(cap) ==
    LET before == BUFFER_POOL.data
        after == BUFFER_POOL'.data
        within(buf) == buf.capacity <= cap
    IN /\ \A t \in Threads :
              LET me == threads[t]
                  then == threads'[t]
              IN /\ (/\ me.pc = "idle" /\ me.held.id # 0 /\ then.calls = me.calls + 1
                     /\ then.pc = "release_to_pool:lock")
                        => within(me.held) /\ after = before
                 /\ (/\ me.pc = "idle" /\ me.held.id # 0 /\ then.calls = me.calls + 1
                     /\ then.pc = "idle")
                        => ~within(me.held) /\ after = before /\ then.held = NoBuffer
                 /\ (me.pc = "release_to_pool:len" /\ then.pc = "release_to_pool:push")
                        => Len(before) < PoolCap /\ after = before
                 /\ (me.pc = "release_to_pool:len" /\ then.pc = "release_to_pool:unlock")
                        => Len(before) >= PoolCap /\ after = before /\ then.held = me.held
                 /\ (me.pc = "release_to_pool:push" /\ then.pc # me.pc)
                        => /\ after = Append(before, me.held)
                           /\ within(me.held)
                           /\ Len(before) < PoolCap
                 /\ (me.pc = "release_to_pool:unlock" /\ then.pc # me.pc)
                        => /\ after = before
                           /\ then.held = NoBuffer
                           /\ me.held.id # 0 => ~InPool(BUFFER_POOL', me.held.id)
       /\ Len(after) > Len(before) =>
              \E t \in Threads : threads[t].pc = "release_to_pool:push"
       /\ \A i \in 1..Len(after) : within(after[i])

\* A released buffer goes back to the pool only if its capacity is at most
\* 1024 * 1024 elements, which for char is 4 MiB of storage, and the pool
\* holds fewer than 16 buffers; otherwise it is dropped and the pool is
\* unchanged; so every buffer in the pool has a capacity of at most
\* 1024 * 1024 elements.
C30_ElementCap == [][ReleaseKeeps(PoolMaxCapacity)]_vars

\* The same with the cap read as 1 MiB of storage, which holds MiB \div 4
\* elements of type char
C30_OneMiBCap == [][ReleaseKeeps(MiB \div CharBytes)]_vars

\* The pool is full, its last buffer has the largest capacity it keeps, and
\* a thread that found the pool full is about to drop the buffer it released.
C30_Witness ==
    /\ Len(BUFFER_POOL.data) = PoolCap
    /\ BUFFER_POOL.data[PoolCap].capacity = PoolMaxCapacity
    /\ \E t \in Threads :
           /\ threads[t].pc = "release_to_pool:unlock"
           /\ threads[t].held.id # 0
           /\ BUFFER_POOL.owner = t

\* ---- C31 ----
\* A failure of the sink at a write of render, render_paged,
\* update_terminal_size, hide_cursor or show_cursor comes back to the caller
\* as the error of that call: the call does not panic and does not return Ok.
C31_SinkFailurePropagates ==
    [][(out'.op \in SinkOps /\ out'.ret = "IoError") \/ ~SinkFails]_vars

\* ---- C32 ----
\* contains and intersects agree with the rect read as a set of cells:
\* contains(x, y) returns whether (x, y) is a cell of the rect, intersects
\* returns whether the two rects share a cell, the same in both orders; a
\* rect of no width or no height has no cell, contains no point and
\* intersects no rect.  Neither method panics.
CellsOf(rect) ==
    {<<x, y>> \in (0..UsizeMax) \X (0..3) :
        /\ rect.x <= x /\ x < rect.x + rect.width
        /\ rect.y <= y /\ y < rect.y + rect.height}

C32_RectAsCells ==
    [][/\ out'.op = "Rect::contains" =>
              /\ out'.ret = "Ok"
              /\ out'.args.value = (<<out'.args.x, out'.args.y>> \in CellsOf(out'.args.rect))
       /\ out'.op = "Rect::intersects" =>
              /\ out'.ret = "Ok"
              /\ out'.args.value = (CellsOf(out'.args.rect) \cap CellsOf(out'.args.other) # {})
              /\ Rect_intersects(out'.args.other, out'.args.rect, out'.args.build).value
                     = out'.args.value]_vars

\* ---- C33 ----
\* FrameTimer::new(fps) returns, for every fps, a timer whose target rate is
\* fps clamped to 1..120: 1 for fps = 0, fps for 1 <= fps <= 120, 120 above;
\* its frame duration is the second divided by the clamped rate, and no
\* division by zero happens.
C33_FpsClamped ==
    out.op = "FrameTimer::new" =>
        LET fps == out.args.fps
            timer == out.args.timer
        IN /\ out.ret = "Ok"
           /\ timer.target_fps = (IF fps = 0 THEN 1 ELSE IF fps <= 120 THEN fps ELSE 120)
           /\ timer.target_fps \in 1..120
           /\ timer.frame_duration * timer.target_fps <= NanosPerSecond
           /\ (timer.frame_duration + 1) * timer.target_fps > NanosPerSecond

\* A timer asked for 0 frames a second waits for a frame of one second.
C33_Witness ==
    /\ out.op = "FrameTimer::wait_for_next_frame"
    /\ out.args.fps = 0
    /\ out.args.timer.target_fps = 1
    /\ out.args.timer.frame_duration = NanosPerSecond
    /\ out.args.timer.frame_count = 1

\* ---- C34 ----
\* The pages of a paged render are rects of at most 64 by 64 cells, not
\* empty, inside the workspace and pairwise disjoint; the pages of a full
\* paged render cover the workspace, every cell lying in exactly one page;
\* and the page strings of a full paged render hold as many characters as
\* the grid has cells, one for every cell of every page.
InPage(page, x, y) ==
    /\ page.x <= x /\ x < page.x + page.width
    /\ page.y <= y /\ y < page.y + page.height

Characters(toks) == Len(SelectSeq(toks, LAMBDA tok : tok[1] = "CH"))

C34_PagesPartition ==
    job.pc # "idle" =>
        /\ \A i \in 1..Len(job.pages) :
               LET page == job.pages[i]
               IN /\ page.width \in 1..64 /\ page.height \in 1..64
                  /\ page.x + page.width <= workspace_size[1]
                  /\ page.y + page.height <= workspace_size[2]
                  /\ \A j \in (i + 1)..Len(job.pages) :
                         \/ page.x + page.width <= job.pages[j].x
                         \/ job.pages[j].x + job.pages[j].width <= page.x
                         \/ page.y + page.height <= job.pages[j].y
                         \/ job.pages[j].y + job.pages[j].height <= page.y
        /\ job.strategy = "Full" =>
               /\ \A x \in 0..(workspace_size[1] - 1), y \in 0..(workspace_size[2] - 1) :
                      Cardinality({i \in 1..Len(job.pages) : InPage(job.pages[i], x, y)}) = 1
               /\ (job.pc = "write" /\ job.written = Len(job.page_outputs)) =>
                      Characters(job.stream) = buffer.width * buffer.height

\* A full paged render of a workspace of 65 by 65 cells has printed its four
\* pages, the last of them a single cell.
C34_Witness ==
    /\ job.pc = "write" /\ job.strategy = "Full"
    /\ job.written = 4
    /\ workspace_size = <<65, 65>>
    /\ job.pages[4] = Rect_new(64, 64, 1, 1)

\* ---- C35 ----
\* The cells of the grid that the terminal does not show as they are
StaleCells(t, fb) ==
    {i \in 1..Len(fb.data) :
        TermCell(t, ((i - 1) % fb.width) + workspace_offset[1],
                    ((i - 1) \div fb.width) + workspace_offset[2]) # fb.data[i]}

\* A render_paged that returns success has taken the whole grid as the
\* previous frame, the pages it judged clean included.  A cell that the
\* terminal shows stale becomes fresh, the grid being unchanged, only by the
\* write of its page, in a full render or in a render that found a sampled
\* cell of the page changed: a change outside the sample points is not
\* emitted by the call that missed it, nor by a later incremental one.
C35_StaleUntilSampled ==
    [][/\ (out'.op = "render_paged" /\ out'.ret = "Ok" /\ job'.pc = "idle") =>
              last_buffer' = buffer
       /\ buffer' = buffer =>
              \A i \in StaleCells(term, buffer) \ StaleCells(term', buffer) :
                  /\ job.pc = "write" /\ job'.pc = "write" /\ job'.written = job.written + 1
                  /\ LET page == job.pages[job.page_outputs[job.written + 1]]
                     IN /\ InPage(page, (i - 1) % buffer.width, (i - 1) \div buffer.width)
                        /\ job.strategy = "Full" \/ SampleDiffers(page)]_vars

\* Two incremental paged renders in a row have returned success, the
\* previous frame is the grid, and the terminal still shows the blank that
\* cell (1, 0) held before the caller wrote it.
C35_Witness ==
    /\ job.pc = "idle"
    /\ out.op = "render_paged" /\ out.ret = "Ok"
    /\ out.strategy = "Incremental" /\ out.after = "Incremental"
    /\ last_buffer = buffer
    /\ StyledFrameBuffer_get(buffer, 1, 0).ch = "X"
    /\ TermCell(term, 1 + workspace_offset[1], workspace_offset[2]) = StyledChar_default

\* ---- C36 ----
InWorkspace(rect) ==
    /\ rect.x + rect.width <= workspace_size[1]
    /\ rect.y + rect.height <= workspace_size[2]

\* Every rect of the engine's dirty queue has a positive width and height.
\* It lies inside the current workspace whenever the force_full flag is
\* clear; a queue that update_terminal_size found is kept as it is when the
\* workspace changes, flag set, until a render clears it.  The rect that
\* mark_dirty appends lies inside the current workspace, and
\* force_full_refresh leaves one rect, the whole workspace.
C36_QueueInWorkspaceUnlessFull ==
    [][/\ \A i \in 1..Len(dirty_regions') :
              /\ dirty_regions'[i].width > 0 /\ dirty_regions'[i].height > 0
              /\ ~force_full_refresh' =>
                     /\ dirty_regions'[i].x + dirty_regions'[i].width <= workspace_size'[1]
                     /\ dirty_regions'[i].y + dirty_regions'[i].height <= workspace_size'[2]
       /\ (Len(dirty_regions') = Len(dirty_regions) + 1 /\ since' = since) =>
              /\ SubSeq(dirty_regions', 1, Len(dirty_regions)) = dirty_regions
              /\ InWorkspace(dirty_regions'[Len(dirty_regions')])
       /\ (since' = "force_full_refresh" /\ since # "force_full_refresh") =>
              /\ dirty_regions' = <<Rect_new(0, 0, workspace_size[1], workspace_size[2])>>
              /\ force_full_refresh']_vars

\* C36 as stated: in every state every rect of the queue has a positive
\* width and height and lies inside the current workspace.
C36_QueueInWorkspace ==
    \A i \in 1..Len(dirty_regions) :
        /\ dirty_regions[i].width > 0 /\ dirty_regions[i].height > 0
        /\ InWorkspace(dirty_regions[i])

\* update_terminal_size has made the workspace narrower than a rect of the
\* queue reaches, and has set the force_full flag.
C36_Witness ==
    /\ out.op = "update_terminal_size" /\ out.ret = "Ok"
    /\ force_full_refresh
    /\ \E i \in 1..Len(dirty_regions) : ~InWorkspace(dirty_regions[i])

\* ---- C37 ----
\* The cells a terminal shows for the characters of a string, in the order
\* of the string: each character in the colours in force where it stands.
\* The newlines move the cursor and change no colour.
ShownCells(str) ==
    LET printed == SelectSeq(str, LAMBDA tok : tok[1] # "NL")
        tape == Term_new(<<Characters(str), 1>>)
    IN TermWrite(tape, printed).cells[1]

\* Read by a terminal, the to_string of a grid shows every cell of the grid,
\* row after row, with its own character, foreground and background: a
\* cell without a colour is not shown in the colour of a cell before it,
\* in whatever row.
C37_ShownAsIs ==
    [][out'.op = "StyledFrameBuffer::to_string" =>
         ShownCells(out'.args.value) = buffer.data]_vars

\* ---- C38 ----
\* The terminal a page string is read by: large enough for every region and
\* offset of the page strings computed.
PageTerm == Term_new(<<8, 4>>)

\* The cells of the region that the grid holds
PageCells(fb, region) ==
    {<<x, y>> \in (0..(fb.width - 1)) \X (0..(fb.height - 1)) : InPage(region, x, y)}

\* Read by a terminal, the string of a page shows every cell of the page at
\* (x + offset_x, y + offset_y) with its own character, foreground and
\* background: a colour of a run does not carry over to a later run of the
\* row that lacks it.
C38_PageShownAsIs ==
    [][out'.op = "render_page_region_static" =>
         LET shown == TermWrite(PageTerm, out'.args.value)
             off == out'.args.workspace_off
         IN \A p \in PageCells(buffer, out'.args.region) :
                TermCell(shown, p[1] + off[1], p[2] + off[2])
                    = StyledFrameBuffer_get(buffer, p[1], p[2])]_vars

\* ---- C39 ----
\* The cells of both grids (of one size) that differ
Differing(self, other) ==
    {p \in (0..(self.width - 1)) \X (0..(self.height - 1)) :
        StyledFrameBuffer_get(self, p[1], p[2]) # StyledFrameBuffer_get(other, p[1], p[2])}

\* rect is a block of 8 x 8 cells of the grid, clipped at the grid's edge
IsBlock(self, rect) ==
    /\ rect.x % 8 = 0 /\ rect.x < self.width
    /\ rect.y % 8 = 0 /\ rect.y < self.height
    /\ rect.width = Min(8, self.width - rect.x)
    /\ rect.height = Min(8, self.height - rect.y)

\* get_changed_regions on two grids of one size returns blocks of 8 x 8
\* cells clipped at the edge, in row-major order of the blocks (so no block
\* twice, and the rects disjoint): every cell that differs lies in a rect
\* returned and every rect returned holds a cell that differs.  On grids of
\* different sizes it returns the one rect that covers this grid.
C39_ChangedBlocks ==
    [][out'.op = "StyledFrameBuffer::get_changed_regions" =>
         LET regions == out'.args.value
         IN IF buffer.width = last_buffer.width /\ buffer.height = last_buffer.height
            THEN /\ \A i \in 1..Len(regions) : IsBlock(buffer, regions[i])
                 /\ \A i, j \in 1..Len(regions) :
                        i < j => \/ regions[i].y < regions[j].y
                                 \/ regions[i].y = regions[j].y /\ regions[i].x < regions[j].x
                 /\ \A p \in Differing(buffer, last_buffer) :
                        \E i \in 1..Len(regions) : InPage(regions[i], p[1], p[2])
                 /\ \A i \in 1..Len(regions) :
                        \E p \in Differing(buffer, last_buffer) : InPage(regions[i], p[1], p[2])
            ELSE regions = << Rect_new(0, 0, buffer.width, buffer.height) >>]_vars

\* Two grids of 9 x 9 that differ in the first and the last block only were
\* compared: two rects, the second of one cell.
C39_Witness ==
    /\ out.op = "StyledFrameBuffer::get_changed_regions"
    /\ buffer.width = 9 /\ last_buffer.width = 9 /\ buffer.height = last_buffer.height
    /\ Differing(buffer, last_buffer) = {<<7, 7>>, <<8, 8>>}
    /\ out.args.value = << Rect_new(0, 0, 8, 8), Rect_new(8, 8, 1, 1) >>

\* ---- C40 ----
\* A grid from new_pooled(w, h) is the grid new(w, h) gives: w * h cells,
\* each the default value (a space; the default StyledChar), and an empty
\* dirty list for the Styled Grid, whatever the recycled buffer held when
\* it was released and whatever size it had.
C40_PooledAsNew ==
    [][/\ out'.op = "FrameBuffer::new_pooled" =>
            /\ plain_grid' = FrameBuffer_new(out'.args.width, out'.args.height)
            /\ Len(plain_grid'.data) = out'.args.width * out'.args.height
            /\ \A i \in 1..Len(plain_grid'.data) : plain_grid'.data[i] = " "
       /\ out'.op = "StyledFrameBuffer::new_pooled" =>
            /\ buffer' = StyledFrameBuffer_new(out'.args.width, out'.args.height)
            /\ Len(buffer'.data) = out'.args.width * out'.args.height
            /\ \A i \in 1..Len(buffer'.data) : buffer'.data[i] = StyledChar_default
            /\ buffer'.dirty_regions = <<>>]_vars

\* A grid of three cells came from a recycled buffer with room for more
\* (the data of a larger grid that was released).
C40_Witness ==
    /\ out.op = "FrameBuffer::new_pooled"
    /\ out.args.recycled
    /\ out.args.width * out.args.height = 3
    /\ out.args.capacity > 3
    /\ plain_grid.data = <<" ", " ", " ">>

====
